---- MODULE Spec2Model ----
(***************************************************************************)
(* A model of rsx-resources: the file cache, the image cache, the font     *)
(* cache and the resource-update log kept by the default keys APIs.        *)
(*                                                                         *)
(* Rust structs are records, hash maps are functions whose DOMAIN is the   *)
(* set of keys present, Result and Option are tagged records.  A method    *)
(* taking &mut self is an operator from the old struct value to a record   *)
(* holding the new struct value ("cache"/"api"), what it returns           *)
(* ("result"/"key") and the events it pushed on the update log ("pushed"). *)
(* Byte buffers and the names that get hashed are sequences of numbers     *)
(* 0..255; data-URI texts are sequences of one-character strings.          *)
(***************************************************************************)
EXTENDS Integers, Sequences, FiniteSets, TLC

VARIABLES
    image_cache,      \* ImageCache { api, images }
    font_cache,       \* FontCache { api, context, instances, default_font }
    file_cache,       \* FileCache { files }
    disk,             \* the file system the file cache reads: canonical path -> entry
    img_appended,     \* history: every event pushed on the image API's log
    img_taken_at,     \* history: Len(img_appended) at the last take
    img_decodes,      \* history: the pixel decoder runs of the last image add
    font_appended,    \* history: every event pushed on the font API's log
    font_taken_at,    \* history: Len(font_appended) at the last take
    font_taken,       \* history: the batches the font API's takes returned, in a row
    engine_queries,   \* history: the font engine queries of the last shaping call
    disk_reads,       \* history: number of load_bytes reads made by the file cache
    borrows,          \* the RefCell borrow flag of each shared handle
    call,             \* the last call made: [op, ...arguments]
    ret               \* what the last call returned

vars == <<image_cache, font_cache, file_cache, disk, img_appended, img_taken_at,
          img_decodes,
          font_appended, font_taken_at, font_taken, engine_queries, disk_reads,
          borrows, call, ret>>

image_vars == <<image_cache, img_appended, img_taken_at, img_decodes>>
font_vars == <<font_cache, font_appended, font_taken_at, font_taken,
               engine_queries>>
file_vars == <<file_cache, disk, disk_reads>>

----------------------------------------------------------------------------
(* Result, Option and hash maps *)

Ok(v) == [tag |-> "Ok", val |-> v]
Err(e) == [tag |-> "Err", err |-> e]
Some(v) == [tag |-> "Some", val |-> v]
None == [tag |-> "None"]
Unit == "()"

IsOk(r) == r.tag = "Ok"
IsErr(r) == r.tag = "Err"
IsSome(r) == r.tag = "Some"

\* The one element of a singleton set: binds a computed value once.
The(S) == CHOOSE x \in S : TRUE

EmptyMap == [k \in {} |-> 0]
MapInsert(m, k, v) == [x \in DOMAIN m \cup {k} |-> IF x = k THEN v ELSE m[x]]
MapGet(m, k) == IF k \in DOMAIN m THEN Some(m[k]) ELSE None

----------------------------------------------------------------------------
(* The names the calls range over, as byte strings *)

NumImageNames == 2

TextQuantum == << 81, 117, 97, 110, 116, 117, 109 >>
TextServo == << 83, 101, 114, 118, 111 >>
TextGecko == << 71, 101, 99, 107, 111 >>
TextRust == << 82, 117, 115, 116 >>
AllImageNames == << TextQuantum, TextServo, TextGecko, TextRust >>
ImageNames == { AllImageNames[i] : i \in 1..NumImageNames }

TextFreeSans == << 70, 114, 101, 101, 83, 97, 110, 115 >>
TextFiraMono == << 70, 105, 114, 97, 77, 111, 110, 111 >>
TextFiraSpaceMono == << 70, 105, 114, 97, 32, 77, 111, 110, 111 >>
FontNames == { TextFreeSans, TextFiraMono }
\* The family names asked for: two that fonts report, one that no font reports.
FamilyNames == { TextFreeSans, TextFiraSpaceMono, TextFiraMono }

\* The texts shaped: "", "Hi" and "i H".
TextHi == << 72, 105 >>
TextIH == << 105, 32, 72 >>
ShapeTexts == { <<>>, TextHi, TextIH }

\* Canonical absolute paths, "/r/a" and "/r/b", and the paths callers pass:
\* the canonical ones and "a", which resolves to "/r/a".
PathRootA == << 47, 114, 47, 97 >>
PathRootB == << 47, 114, 47, 98 >>
PathRelativeA == << 97 >>
CanonicalPaths == { PathRootA, PathRootB }
Paths == { PathRootA, PathRootB, PathRelativeA }

----------------------------------------------------------------------------
(* Hashing.  The identities are FnvHasher digests of the name's bytes.  The *)
(* digest is computed here with FNV-1a's xor-then-multiply step at a width  *)
(* of 16 bits (offset basis 0x811C, prime 0x0193), since TLC's integers do  *)
(* not hold 64 bits.                                                        *)

RECURSIVE XorBits(_, _, _)
XorBits(a, b, n) ==
    IF n = 0 THEN 0
    ELSE (((a % 2) + (b % 2)) % 2) + 2 * XorBits(a \div 2, b \div 2, n - 1)

RECURSIVE FnvWrite(_, _)
FnvWrite(h, bytes) ==
    IF bytes = <<>> THEN h
    ELSE FnvWrite((XorBits(h, Head(bytes), 16) * 403) % 65536, Tail(bytes))

FnvHash(bytes) == FnvWrite(33052, bytes)

\* The digests of the texts the calls range over, computed once.
HashedTexts ==
    { AllImageNames[i] : i \in DOMAIN AllImageNames }
    \cup FontNames
    \cup FamilyNames
    \cup Paths
    \cup { t \o << 255 >> : t \in ShapeTexts }
FnvDigests == [t \in HashedTexts |-> FnvHash(t)]
FnvHasher_finish(bytes) == FnvDigests[bytes]

----------------------------------------------------------------------------
(* base64-util: data URIs *)

Base64Alphabet ==
    << "A","B","C","D","E","F","G","H","I","J","K","L","M","N","O","P",
       "Q","R","S","T","U","V","W","X","Y","Z","a","b","c","d","e","f",
       "g","h","i","j","k","l","m","n","o","p","q","r","s","t","u","v",
       "w","x","y","z","0","1","2","3","4","5","6","7","8","9","+","/" >>

B64(n) == Base64Alphabet[n + 1]

RECURSIVE base64_encode(_)
base64_encode(bytes) ==
    IF Len(bytes) = 0 THEN <<>>
    ELSE IF Len(bytes) = 1 THEN
        << B64(bytes[1] \div 4), B64((bytes[1] % 4) * 16), "=", "=" >>
    ELSE IF Len(bytes) = 2 THEN
        << B64(bytes[1] \div 4),
           B64(((bytes[1] % 4) * 16) + (bytes[2] \div 16)),
           B64((bytes[2] % 16) * 4), "=" >>
    ELSE
        << B64(bytes[1] \div 4),
           B64(((bytes[1] % 4) * 16) + (bytes[2] \div 16)),
           B64(((bytes[2] % 16) * 4) + (bytes[3] \div 64)),
           B64(bytes[3] % 64) >>
        \o base64_encode(SubSeq(bytes, 4, Len(bytes)))

TextDataImage == << "d","a","t","a",":","i","m","a","g","e","/" >>
TextBase64Marker == << ";","b","a","s","e","6","4","," >>
TextDataFont ==
    << "d","a","t","a",":","a","p","p","l","i","c","a","t","i","o","n","/",
       "x","-","f","o","n","t","-","w","o","f","f" >>

to_image_data_uri(format, bytes) ==
    TextDataImage \o format \o TextBase64Marker \o base64_encode(bytes)

to_font_data_uri(bytes) ==
    TextDataFont \o TextBase64Marker \o base64_encode(bytes)

\* base64::decode, of the base64 crate: the inverse of base64_encode on its
\* output; the padding may be left out; a character outside the alphabet or a
\* length that no encoding has is an error.
IsBase64Char(c) == \E n \in 1..64 : Base64Alphabet[n] = c

Base64Index(c) == (CHOOSE n \in 1..64 : Base64Alphabet[n] = c) - 1

RECURSIVE base64_decode_symbols(_)
base64_decode_symbols(t) ==
    IF Len(t) = 0 THEN <<>>
    ELSE LET a == Base64Index(t[1])
             b == Base64Index(t[2])
         IN  IF Len(t) = 2 THEN << (a * 4) + (b \div 16) >>
             ELSE LET c == Base64Index(t[3])
                  IN  IF Len(t) = 3
                      THEN << (a * 4) + (b \div 16), ((b % 16) * 16) + (c \div 4) >>
                      ELSE << (a * 4) + (b \div 16),
                              ((b % 16) * 16) + (c \div 4),
                              ((c % 4) * 64) + Base64Index(t[4]) >>
                           \o base64_decode_symbols(SubSeq(t, 5, Len(t)))

base64_decode(text) ==
    LET n == Len(text)
        padding == IF n >= 2 /\ text[n] = "=" /\ text[n - 1] = "=" THEN 2
                   ELSE IF n >= 1 /\ text[n] = "=" THEN 1
                   ELSE 0
        symbols == SubSeq(text, 1, n - padding)
    IN  IF \E i \in 1..Len(symbols) : ~IsBase64Char(symbols[i])
        THEN Err("InvalidByte")
        ELSE IF Len(symbols) % 4 = 1 \/ (padding > 0 /\ n % 4 # 0)
        THEN Err("InvalidLength")
        ELSE Ok(base64_decode_symbols(symbols))

TextBase64 == << "b","a","s","e","6","4","," >>

\* str::find: the byte index, from 0, of the first place the pattern is at.
str_find(text, pattern) ==
    LET at == { i \in 0..(Len(text) - Len(pattern)) :
                  SubSeq(text, i + 1, i + Len(pattern)) = pattern }
    IN  IF at = {} THEN None
        ELSE Some(CHOOSE i \in at : \A j \in at : i <= j)

\* The call did not return: slicing out of range panics.
Panic == [tag |-> "Panic"]

\* A faulty variant of from_data_uri: the marker is not skipped.
from_data_uri_keeps_marker(data_uri) ==
    LET found == str_find(data_uri, TextBase64)
        start == IF found = None THEN 0 ELSE found.val
    IN  IF start > Len(data_uri) THEN Panic
        ELSE base64_decode(SubSeq(data_uri, start + 1, Len(data_uri)))

\* data_uri.find("base64,").unwrap_or(0) + 7, then &data_uri.as_bytes()[start..]
from_data_uri(data_uri) ==
    LET found == str_find(data_uri, TextBase64)
        start == (IF found = None THEN 0 ELSE found.val) + 7
    IN  IF start > Len(data_uri) THEN Panic
        ELSE base64_decode(SubSeq(data_uri, start + 1, Len(data_uri)))

----------------------------------------------------------------------------
(* rsx-resource-updates: the update log and the default keys APIs *)

ResourceUpdates_with_capacity == [updates |-> <<>>]

UpdateAddImage(key, data_uri) ==
    [type |-> "AddImage", key |-> key, data_uri |-> data_uri]
UpdateAddFont(key, data_uri) ==
    [type |-> "AddFont", key |-> key, data_uri |-> data_uri]
UpdateAddFontInstance(instance_key, key, size) ==
    [type |-> "AddFontInstance", key |-> key, instance_key |-> instance_key,
     size |-> size]

ResourceUpdates_add_image(up, key, data_uri) ==
    [updates |-> Append(up.updates, UpdateAddImage(key, data_uri))]

ResourceUpdates_add_font(up, key, data_uri) ==
    [updates |-> Append(up.updates, UpdateAddFont(key, data_uri))]

ResourceUpdates_add_font_instance(up, instance_key, key, size) ==
    [updates |-> Append(up.updates, UpdateAddFontInstance(instance_key, key, size))]

DefaultImageKeysAPI_new == [up |-> ResourceUpdates_with_capacity, next_image_key |-> 0]

\* A faulty variant of add_image: the key counter is not advanced.
DefaultImageKeysAPI_add_image_same_key(api, encoded) ==
    LET image_key == api.next_image_key
        uri == IF encoded.variant = "Bytes"
               THEN to_image_data_uri(encoded.format, encoded.bytes)
               ELSE encoded.data_uri
    IN  [api |-> [up |-> ResourceUpdates_add_image(api.up, image_key, uri),
                  next_image_key |-> api.next_image_key],
         key |-> image_key,
         pushed |-> << UpdateAddImage(image_key, uri) >>]

\* encoded is the ImageEncodedData passed by the cache (EncodedImage::info).
DefaultImageKeysAPI_add_image(api, encoded) ==
    LET image_key == api.next_image_key
        uri == IF encoded.variant = "Bytes"
               THEN to_image_data_uri(encoded.format, encoded.bytes)
               ELSE encoded.data_uri
    IN  [api |-> [up |-> ResourceUpdates_add_image(api.up, image_key, uri),
                  next_image_key |-> api.next_image_key + 1],
         key |-> image_key,
         pushed |-> << UpdateAddImage(image_key, uri) >>]

\* mem::replace(&mut self.up, ResourceUpdates::with_capacity(0))
DefaultImageKeysAPI_take_resource_updates(api) ==
    [api |-> [api EXCEPT !.up = ResourceUpdates_with_capacity],
     result |-> api.up]

DefaultFontKeysAPI_new ==
    [up |-> ResourceUpdates_with_capacity, next_font_key |-> 0,
     next_font_instance_key |-> 0]

\* A faulty variant of add_font: the key counter is not advanced.
DefaultFontKeysAPI_add_font_same_key(api, encoded) ==
    LET font_key == api.next_font_key
        uri == IF encoded.variant = "Bytes"
               THEN to_font_data_uri(encoded.bytes)
               ELSE encoded.data_uri
    IN  [api |-> [api EXCEPT !.up = ResourceUpdates_add_font(api.up, font_key, uri)],
         key |-> font_key,
         pushed |-> << UpdateAddFont(font_key, uri) >>]

\* encoded is the FontEncodedData passed by the cache (EncodedFont::info).
DefaultFontKeysAPI_add_font(api, encoded) ==
    LET font_key == api.next_font_key
        uri == IF encoded.variant = "Bytes"
               THEN to_font_data_uri(encoded.bytes)
               ELSE encoded.data_uri
    IN  [api |-> [api EXCEPT !.up = ResourceUpdates_add_font(api.up, font_key, uri),
                             !.next_font_key = api.next_font_key + 1],
         key |-> font_key,
         pushed |-> << UpdateAddFont(font_key, uri) >>]

\* A faulty variant of add_font_instance: the two keys are handed to the log swapped.
DefaultFontKeysAPI_add_font_instance_swapped(api, font_key, resource) ==
    LET font_instance_key == api.next_font_instance_key
        size == resource.size
    IN  [api |-> [api EXCEPT
                    !.up = ResourceUpdates_add_font_instance(
                               api.up, font_key, font_instance_key, size),
                    !.next_font_instance_key = api.next_font_instance_key + 1],
         key |-> font_instance_key,
         pushed |-> << UpdateAddFontInstance(font_key, font_instance_key, size) >>]

\* A faulty variant of add_font_instance: the counter is not advanced.
DefaultFontKeysAPI_add_font_instance_same_key(api, font_key, resource) ==
    LET font_instance_key == api.next_font_instance_key
        size == resource.size
    IN  [api |-> [api EXCEPT
                    !.up = ResourceUpdates_add_font_instance(
                               api.up, font_instance_key, font_key, size)],
         key |-> font_instance_key,
         pushed |-> << UpdateAddFontInstance(font_instance_key, font_key, size) >>]

\* resource is the FontInstanceResourceData { size, dpi }.
DefaultFontKeysAPI_add_font_instance(api, font_key, resource) ==
    LET font_instance_key == api.next_font_instance_key
        size == resource.size
    IN  [api |-> [api EXCEPT
                    !.up = ResourceUpdates_add_font_instance(
                               api.up, font_instance_key, font_key, size),
                    !.next_font_instance_key = api.next_font_instance_key + 1],
         key |-> font_instance_key,
         pushed |-> << UpdateAddFontInstance(font_instance_key, font_key, size) >>]

\* A faulty variant of take_resource_updates: the log is copied, not replaced.
DefaultFontKeysAPI_take_resource_updates_copy(api) ==
    [api |-> api, result |-> api.up]

\* mem::replace(&mut self.up, ResourceUpdates::with_capacity(0))
\* A faulty variant of the font API's take: the whole API is replaced by a new
\* one, counters included.
DefaultFontKeysAPI_take_resource_updates_new_api(api) ==
    [api |-> [up |-> ResourceUpdates_with_capacity,
              next_font_key |-> 0, next_font_instance_key |-> 0],
     result |-> api.up]

\* A faulty variant of the font API's take: the newest event is not handed out.
DefaultFontKeysAPI_take_resource_updates_loses_newest(api) ==
    [api |-> [api EXCEPT !.up = ResourceUpdates_with_capacity],
     result |-> [api.up EXCEPT
                   !.updates = IF @ = <<>> THEN @ ELSE SubSeq(@, 1, Len(@) - 1)]]

DefaultFontKeysAPI_take_resource_updates(api) ==
    [api |-> [api EXCEPT !.up = ResourceUpdates_with_capacity],
     result |-> api.up]

----------------------------------------------------------------------------
(* rsx-images.  The image codec is an external library: here the leading    *)
(* bytes of a buffer are its magic number and its third byte stands for the *)
(* encoded picture (0 or absent: a corrupt stream; otherwise the kind of    *)
(* picture and its size).                                                   *)

PngRgba == << 137, 80, 2 >>
PngRgb == << 137, 80, 3 >>
JpegLuma == << 255, 216, 1 >>
PngCorrupt == << 137, 80, 0 >>
NotAnImage == << 7, 7 >>
ImageBuffers == { PngRgba, PngRgb, JpegLuma, PngCorrupt, NotAnImage }

\* cfg!(feature = "image-rgb-to-bgr"): the default build leaves it off.
FeatureImageRgbToBgr == FALSE

ImageId_new(src) == FnvHasher_finish(src)

ImageEncodingFormat_as_ref(format) ==
    IF format = "PNG" THEN << "p", "n", "g" >> ELSE << "j", "p", "e", "g" >>

EncodedImage_guess_format(bytes) ==
    IF Len(bytes) >= 2 /\ bytes[1] = 137 /\ bytes[2] = 80 THEN Ok("PNG")
    ELSE IF Len(bytes) >= 2 /\ bytes[1] = 255 /\ bytes[2] = 216 THEN Ok("JPEG")
    ELSE Err("LibError")

EncodedImage_from_bytes(bytes) ==
    LET format == EncodedImage_guess_format(bytes)
    IN  IF IsErr(format) THEN format
        ELSE Ok([variant |-> "Bytes", format |-> format.val, bytes |-> bytes,
                 size_info |-> None])

\* What EncodedImage::from_data_uri builds from a data URI that decodes to bytes.
EncodedImage_BytesAndDataUri(format, bytes, data_uri) ==
    [variant |-> "BytesAndDataUri", format |-> format, bytes |-> bytes,
     data_uri |-> data_uri, size_info |-> None]

EncodedImage_from_data_uri(data_uri) ==
    LET decoded == from_data_uri(data_uri)
        format == EncodedImage_guess_format(decoded.val)
    IN  IF decoded = Panic THEN Panic
        ELSE IF IsErr(decoded) THEN Err("DataUriDecodeError")
        ELSE IF IsErr(format) THEN format
        ELSE Ok(EncodedImage_BytesAndDataUri(format.val, decoded.val, data_uri))

\* A faulty variant of info: the data URI the image came with is dropped.
EncodedImage_info_bytes_only(encoded) ==
    [variant |-> "Bytes", bytes |-> encoded.bytes,
     format |-> ImageEncodingFormat_as_ref(encoded.format)]

EncodedImage_info(encoded) ==
    IF encoded.variant = "Bytes"
    THEN [variant |-> "Bytes", bytes |-> encoded.bytes,
          format |-> ImageEncodingFormat_as_ref(encoded.format)]
    ELSE [variant |-> "DataUri", data_uri |-> encoded.data_uri]

DecodedImage_load_from_memory(format, bytes) ==
    IF Len(bytes) < 3 \/ bytes[3] % 4 = 0 THEN Err("LibError")
    ELSE LET p == bytes[3]
             size == << p, p + 1 >>
         IN  IF p % 4 = 1
             THEN Ok([format |-> << "Gray", 8 >>, size |-> size, pixels |-> << p >>])
             ELSE IF FeatureImageRgbToBgr
             THEN Ok([format |-> << "BGRA", 8 >>, size |-> size,
                      pixels |-> << p + 2, p + 1, p, 255 >>])
             ELSE Ok([format |-> << "RGBA", 8 >>, size |-> size,
                      pixels |-> << p, p + 1, p + 2, 255 >>])

DecodedImage_from_encoded_image(encoded) ==
    DecodedImage_load_from_memory(encoded.format, encoded.bytes)

Image_new(format, size, pixels, external_key) ==
    [format |-> format, size |-> size, pixels |-> pixels,
     external_key |-> external_key]

Image_to_dimensions_info(image) ==
    [image_key |-> image.external_key, size |-> image.size]

ImageCache_new == [api |-> DefaultImageKeysAPI_new, images |-> EmptyMap]

\* A faulty variant of the Vacant arm: the key is allocated before the decode.
ImageCache_add_image_vacant_key_first(cache, image_id, encoded) ==
    LET decoded == DecodedImage_from_encoded_image(encoded)
        k == DefaultImageKeysAPI_add_image(cache.api, EncodedImage_info(encoded))
    IN  IF IsErr(decoded)
        THEN [cache |-> [cache EXCEPT !.api = k.api], result |-> decoded,
              pushed |-> k.pushed, decodes |-> 1]
        ELSE [cache |-> [api |-> k.api,
                         images |-> MapInsert(cache.images, image_id,
                                       Image_new(decoded.val.format, decoded.val.size,
                                                 decoded.val.pixels, k.key))],
              result |-> Ok(Unit), pushed |-> k.pushed, decodes |-> 1]

\* The Entry::Vacant arm of add_image: decode, allocate the key, insert.
\* decodes counts the runs of the pixel decoder.
ImageCache_add_image_vacant(cache, image_id, encoded) ==
    LET decoded == DecodedImage_from_encoded_image(encoded)
    IN  IF IsErr(decoded)
        THEN [cache |-> cache, result |-> decoded, pushed |-> <<>>, decodes |-> 1]
        ELSE LET k == DefaultImageKeysAPI_add_image(
                          cache.api, EncodedImage_info(encoded))
                 image == Image_new(decoded.val.format, decoded.val.size,
                                    decoded.val.pixels, k.key)
             IN  [cache |-> [api |-> k.api,
                             images |-> MapInsert(cache.images, image_id, image)],
                  result |-> Ok(Unit),
                  pushed |-> k.pushed, decodes |-> 1]

\* A faulty variant of add_image: the entry is inserted without looking for an old one.
ImageCache_add_image_overwrite(cache, image_id, encoded) ==
    ImageCache_add_image_vacant(cache, image_id, encoded)

\* A faulty variant of add_image: the image is decoded before the lookup.
ImageCache_add_image_decode_first(cache, image_id, encoded) ==
    IF image_id \in DOMAIN cache.images
    THEN [cache |-> cache,
          result |-> IF IsErr(DecodedImage_from_encoded_image(encoded))
                     THEN DecodedImage_from_encoded_image(encoded)
                     ELSE Err("ImageAlreadyAdded"),
          pushed |-> <<>>, decodes |-> 1]
    ELSE ImageCache_add_image_vacant(cache, image_id, encoded)

ImageCache_add_image(cache, image_id, encoded) ==
    IF image_id \in DOMAIN cache.images
    THEN [cache |-> cache, result |-> Err("ImageAlreadyAdded"), pushed |-> <<>>,
          decodes |-> 0]
    ELSE ImageCache_add_image_vacant(cache, image_id, encoded)

ImageCache_add_raw(cache, image_id, bytes) ==
    LET encoded == EncodedImage_from_bytes(bytes)
    IN  IF IsErr(encoded)
        THEN [cache |-> cache, result |-> encoded, pushed |-> <<>>, decodes |-> 0]
        ELSE ImageCache_add_image(cache, image_id, encoded.val)

ImageCache_get_image(cache, src) == MapGet(cache.images, ImageId_new(src))

ImageCache_measure_image(cache, src) ==
    LET image == MapGet(cache.images, ImageId_new(src))
    IN  IF IsSome(image) THEN Some(Image_to_dimensions_info(image.val)) ELSE None

\* The encoded images a caller can hand to add_image: built by from_bytes, or by
\* from_data_uri from the data URI of a buffer.
EncodedImages ==
    { EncodedImage_from_bytes(b).val :
        b \in { x \in ImageBuffers : IsOk(EncodedImage_from_bytes(x)) } }
    \cup
    { EncodedImage_BytesAndDataUri(
          EncodedImage_guess_format(b).val, b,
          to_image_data_uri(
              ImageEncodingFormat_as_ref(EncodedImage_guess_format(b).val), b)) :
        b \in { x \in ImageBuffers : IsOk(EncodedImage_guess_format(x)) } }

----------------------------------------------------------------------------
(* The calls on the image cache *)

ImgAddRaw(name, bytes) ==
    LET image_id == ImageId_new(name)
        r == ImageCache_add_raw(image_cache, image_id, bytes)
    IN  /\ image_cache' = r.cache
        /\ img_appended' = img_appended \o r.pushed
        /\ img_decodes' = r.decodes
        /\ call' = [op |-> "ImageCache::add_raw", id |-> image_id, bytes |-> bytes]
        /\ ret' = r.result
        /\ UNCHANGED << borrows, img_taken_at, font_vars, file_vars >>

ImgAddImage(name, encoded) ==
    LET image_id == ImageId_new(name)
        r == ImageCache_add_image(image_cache, image_id, encoded)
    IN  /\ image_cache' = r.cache
        /\ img_appended' = img_appended \o r.pushed
        /\ img_decodes' = r.decodes
        /\ call' = [op |-> "ImageCache::add_image", id |-> image_id,
                    encoded |-> encoded]
        /\ ret' = r.result
        /\ UNCHANGED << borrows, img_taken_at, font_vars, file_vars >>

ImgGetImage(name) ==
    /\ call' = [op |-> "ImageCache::get_image", id |-> ImageId_new(name)]
    /\ ret' = ImageCache_get_image(image_cache, name)
    /\ UNCHANGED << borrows, image_vars, font_vars, file_vars >>

ImgMeasureImage(name) ==
    /\ call' = [op |-> "ImageCache::measure_image", id |-> ImageId_new(name)]
    /\ ret' = ImageCache_measure_image(image_cache, name)
    /\ UNCHANGED << borrows, image_vars, font_vars, file_vars >>

ImgTakeResourceUpdates ==
    LET r == DefaultImageKeysAPI_take_resource_updates(image_cache.api)
    IN  /\ image_cache' = [image_cache EXCEPT !.api = r.api]
        /\ img_taken_at' = Len(img_appended)
        /\ call' = [op |-> "DefaultImageKeysAPI::take_resource_updates"]
        /\ ret' = r.result
        /\ UNCHANGED << borrows, img_appended, img_decodes, font_vars, file_vars >>

ImageNext ==
    \/ \E name \in ImageNames, bytes \in ImageBuffers : ImgAddRaw(name, bytes)
    \/ \E name \in ImageNames, encoded \in EncodedImages : ImgAddImage(name, encoded)
    \/ \E name \in ImageNames : ImgGetImage(name)
    \/ \E name \in ImageNames : ImgMeasureImage(name)
    \/ ImgTakeResourceUpdates

----------------------------------------------------------------------------
(* rsx-fonts.  The font engine (FreeType) is an external library: here a    *)
(* font file is a buffer that starts with the sfnt version tag and whose    *)
(* fifth byte names the one face it holds.                                  *)

DEFAULT_FONT_SIZE == 16
DEFAULT_FONT_DPI == 72

FreeSansTtf == << 0, 1, 0, 0, 1 >>
FiraMonoTtf == << 0, 1, 0, 0, 3 >>
NamelessTtf == << 0, 1, 0, 0, 4 >>
NotAFont == << 7, 7 >>
\* Two damaged fonts the engine opens: a copy of FreeSans in which the outline
\* of the glyph of 'i' is corrupt, and a font that holds bitmap strikes only.
CorruptGlyphTtf == << 0, 1, 0, 0, 5 >>
BitmapOnlyTtf == << 0, 1, 0, 0, 6 >>
FontBuffers == { FreeSansTtf, FiraMonoTtf, NamelessTtf, NotAFont }
\* The (buffer, face index) pairs handed to add_raw: every buffer at index 0, and
\* one at an index the file does not hold.
FontFiles == { << b, 0 >> : b \in FontBuffers } \cup { << FreeSansTtf, 1 >> }
FontSizes == { DEFAULT_FONT_SIZE, 24 }
\* The (size, dpi) pairs asked for.
FontVariants ==
    { << DEFAULT_FONT_SIZE, DEFAULT_FONT_DPI >>, << 24, DEFAULT_FONT_DPI >>,
      << DEFAULT_FONT_SIZE, 96 >> }

FontId_new(font_name) == FnvHasher_finish(font_name)

FontInstanceId_from_family_hash(family_name, size, dpi) ==
    [family_name |-> family_name, size |-> size, dpi |-> dpi]

FontInstanceId_from_family_str(family_name, size, dpi) ==
    FontInstanceId_from_family_hash(FnvHasher_finish(family_name), size, dpi)

\* #[derive(PartialEq)] on FontInstanceId: field by field.
FontInstanceId_eq(a, b) ==
    a.family_name = b.family_name /\ a.size = b.size /\ a.dpi = b.dpi

FontInstanceId_resize(id, size) ==
    FontInstanceId_from_family_hash(id.family_name, size, id.dpi)

\* A faulty variant of resize_dpi: the DPI of the receiver is kept.
FontInstanceId_resize_dpi_keeps_dpi(id, size, dpi) ==
    FontInstanceId_from_family_hash(id.family_name, size, id.dpi)

FontInstanceId_resize_dpi(id, size, dpi) ==
    FontInstanceId_from_family_hash(id.family_name, size, dpi)

EncodedFont_from_bytes(bytes) == Ok([variant |-> "Bytes", bytes |-> bytes])

\* What EncodedFont::from_data_uri builds from a data URI that decodes to bytes.
EncodedFont_BytesAndDataUri(bytes, data_uri) ==
    [variant |-> "BytesAndDataUri", bytes |-> bytes, data_uri |-> data_uri]

EncodedFont_from_data_uri(data_uri) ==
    LET decoded == from_data_uri(data_uri)
    IN  IF decoded = Panic THEN Panic
        ELSE IF IsErr(decoded) THEN Err("DataUriDecodeError")
        ELSE Ok(EncodedFont_BytesAndDataUri(decoded.val, data_uri))

EncodedFont_info(encoded) ==
    IF encoded.variant = "Bytes"
    THEN [variant |-> "Bytes", bytes |-> encoded.bytes]
    ELSE [variant |-> "DataUri", data_uri |-> encoded.data_uri]

DecodedFont_from_encoded_font(encoded, face_index) ==
    [bytes |-> encoded.bytes, face_index |-> face_index]

\* FT_New_Memory_Face: the engine's face object, or its error code.  A new
\* face has a size object and a glyph slot, with no size set and no glyph loaded.
FT_New_Memory_Face(bytes, face_index) ==
    IF Len(bytes) = 5 /\ SubSeq(bytes, 1, 4) = << 0, 1, 0, 0 >> /\ face_index = 0
    THEN Ok([family_name |->
                IF bytes[5] \in { 1, 5 } THEN Some(TextFreeSans)
                ELSE IF bytes[5] \in { 3, 6 } THEN Some(TextFiraSpaceMono)
                ELSE None,
             scalable |-> bytes[5] # 6,
             corrupt_glyphs |-> IF bytes[5] = 5 THEN { 76 } ELSE {},
             size |-> [char_size |-> 0, resolution |-> 0],
             glyph |-> [index |-> 0, char_size |-> 0, resolution |-> 0]])
    ELSE Err("FTError")

FontFace_new(bytes, face_index) ==
    LET raw == FT_New_Memory_Face(bytes, face_index)
    IN  IF IsErr(raw) THEN raw
        ELSE Ok([raw |-> raw.val, bytes |-> bytes, face_index |-> face_index])

FontFace_get_family_name(face) ==
    IF IsSome(face.raw.family_name)
    THEN Ok(face.raw.family_name.val)
    ELSE Err("FaceFamilyNameMissing")

FontContext_new == [faces |-> EmptyMap]

\* A faulty variant of add_face: the face is inserted without looking for an old one.
FontContext_add_face_overwrite(context, font_id, bytes, face_index) ==
    LET face == FontFace_new(bytes, face_index)
    IN  IF IsErr(face)
        THEN [context |-> context, result |-> face]
        ELSE [context |-> [faces |-> MapInsert(context.faces, font_id, face.val)],
              result |-> Ok(Unit)]

\* A faulty variant of add_face: the entry is filled before the engine has
\* accepted the bytes, so a rejected add leaves an empty face behind.
FontContext_add_face_reserves(context, font_id, bytes, face_index) ==
    IF font_id \in DOMAIN context.faces
    THEN [context |-> context, result |-> Err("FaceAlreadyAdded")]
    ELSE LET face == FontFace_new(bytes, face_index)
         IN  IF IsErr(face)
             THEN [context |->
                     [faces |-> MapInsert(context.faces, font_id,
                        [raw |-> [family_name |-> None,
                                  scalable |-> TRUE, corrupt_glyphs |-> {},
                                  size |-> [char_size |-> 0, resolution |-> 0],
                                  glyph |-> [index |-> 0, char_size |-> 0,
                                             resolution |-> 0]],
                         bytes |-> bytes, face_index |-> face_index])],
                   result |-> face]
             ELSE [context |-> [faces |-> MapInsert(context.faces, font_id, face.val)],
                   result |-> Ok(Unit)]

FontContext_add_face(context, font_id, bytes, face_index) ==
    IF font_id \in DOMAIN context.faces
    THEN [context |-> context, result |-> Err("FaceAlreadyAdded")]
    ELSE LET face == FontFace_new(bytes, face_index)
         IN  IF IsErr(face)
             THEN [context |-> context, result |-> face]
             ELSE [context |-> [faces |-> MapInsert(context.faces, font_id, face.val)],
                   result |-> Ok(Unit)]

FontContext_get_family_name(context, font_id) ==
    IF font_id \notin DOMAIN context.faces THEN Err("FaceNotFound")
    ELSE FontFace_get_family_name(context.faces[font_id])

FontInstance_new(font_id, size, dpi, external_key, external_instance_key) ==
    [font_id |-> font_id, size |-> size, dpi |-> dpi,
     external_key |-> external_key,
     external_instance_key |-> external_instance_key,
     shaped_text_h_cache |-> EmptyMap,
     shaped_text_v_cache |-> EmptyMap]

----------------------------------------------------------------------------
(* The font engine's metrics.  A face is scalable: its metrics at a nominal  *)
(* size are the design values of the face times the pixels per em.          *)

PixelsPerEm(char_size, resolution) == ((char_size \div 64) * resolution) \div 72

\* FT_Get_Char_Index: the glyph of a character, 0 when the face has none.
FT_Get_Char_Index(raw, c) == IF c \in { 32, 72, 105 } THEN c - 29 ELSE 0

\* The advance width of a glyph in design units per pixel of the em.
GlyphAdvance(glyph_index) ==
    CASE glyph_index = 3 -> 18
      [] glyph_index = 43 -> 46
      [] glyph_index = 76 -> 14
      [] OTHER -> 32

\* FT_Set_Char_Size: the nominal size of the face's size object.
FT_Set_Char_Size(raw, w, h, h_res, v_res) ==
    [raw EXCEPT !.size = [char_size |-> w, resolution |-> h_res]]

\* FT_Load_Glyph: the glyph slot holds the glyph at the face's nominal size.
FT_Load_Glyph(raw, glyph_index) ==
    [raw EXCEPT !.glyph = [index |-> glyph_index,
                           char_size |-> raw.size.char_size,
                           resolution |-> raw.size.resolution]]

\* face.size.metrics
FT_Size_Metrics(raw) ==
    LET ppem == PixelsPerEm(raw.size.char_size, raw.size.resolution)
    IN  [x_ppem |-> ppem, y_ppem |-> ppem, ascender |-> ppem * 64,
         descender |-> 0 - (ppem * 20), height |-> ppem * 88,
         max_advance |-> ppem * 96]

\* face.glyph.metrics
FT_Glyph_Metrics(raw) ==
    LET ppem == PixelsPerEm(raw.glyph.char_size, raw.glyph.resolution)
    IN  [width |-> ppem * (GlyphAdvance(raw.glyph.index) - 4),
         height |-> ppem * 46,
         horiAdvance |-> ppem * GlyphAdvance(raw.glyph.index),
         vertAdvance |-> ppem * 64]

FontFace_get_char_index(face, c) == FT_Get_Char_Index(face.raw, c)

\* The engine refuses a nominal size on a face without scalable outlines.
FontFace_set_char_size(face, w, h, h_res, v_res) ==
    IF face.raw.scalable
    THEN Ok([face EXCEPT !.raw = FT_Set_Char_Size(face.raw, w, h, h_res, v_res)])
    ELSE Err("FTError")

\* The engine fails to load a glyph whose outline is corrupt.
FontFace_load_glyph(face, c) ==
    IF c \in face.raw.corrupt_glyphs
    THEN Err("FTError")
    ELSE Ok([face EXCEPT !.raw = FT_Load_Glyph(face.raw, c)])

FontFace_get_size_metrics(face) == Ok(FT_Size_Metrics(face.raw))

FontFace_get_glyph_metrics(face) == Ok(FT_Glyph_Metrics(face.raw))

DefaultGlyphInstance_new(glyph_index, x_64, y_64) ==
    [glyph_index |-> glyph_index, x_64 |-> x_64, y_64 |-> y_64]

FontContext_get_glyph_index(context, instance, c) ==
    IF instance.font_id \notin DOMAIN context.faces THEN Err("FaceNotFound")
    ELSE Ok(FontFace_get_char_index(context.faces[instance.font_id], c))

\* A faulty variant of get_glyph_dimensions: the glyph is loaded at whatever
\* nominal size the face was left with.
FontContext_get_glyph_dimensions_unsized(context, instance, c) ==
    IF instance.font_id \notin DOMAIN context.faces
    THEN [context |-> context, result |-> Err("FaceNotFound"), calls |-> <<>>]
    ELSE LET font_id == instance.font_id
             face == context.faces[font_id]
             glyph_index == FontContext_get_glyph_index(context, instance, c).val
             loaded == FontFace_load_glyph(face, glyph_index).val
             metrics == FontFace_get_glyph_metrics(loaded).val
         IN  [context |-> [context EXCEPT !.faces[font_id] = loaded],
              result |-> Ok([glyph_index |-> glyph_index,
                             width_64 |-> metrics.width,
                             height_64 |-> metrics.height,
                             hori_advance_64 |-> metrics.horiAdvance,
                             vert_advance_64 |-> metrics.vertAdvance]),
              calls |-> << "FT_Get_Char_Index", "FT_Load_Glyph", "glyph.metrics" >>]

\* calls is the sequence of queries made on the font engine.
FontContext_get_glyph_dimensions(context, instance, c) ==
    IF instance.font_id \notin DOMAIN context.faces
    THEN [context |-> context, result |-> Err("FaceNotFound"), calls |-> <<>>]
    ELSE LET font_id == instance.font_id
             face == context.faces[font_id]
             point_size == instance.size * 64
             glyph_index == FontContext_get_glyph_index(context, instance, c).val
             set == FontFace_set_char_size(face, point_size, 0, instance.dpi, 0)
             sized == set.val
             load == FontFace_load_glyph(sized, glyph_index)
             loaded == load.val
             metrics == FontFace_get_glyph_metrics(loaded).val
         IN  IF IsErr(set)
             THEN [context |-> context, result |-> set,
                   calls |-> << "FT_Get_Char_Index", "FT_Set_Char_Size" >>]
             ELSE IF IsErr(load)
             THEN [context |-> [context EXCEPT !.faces[font_id] = sized],
                   result |-> load,
                   calls |-> << "FT_Get_Char_Index", "FT_Set_Char_Size",
                                "FT_Load_Glyph" >>]
             ELSE
             [context |-> [context EXCEPT !.faces[font_id] = loaded],
              result |-> Ok([glyph_index |-> glyph_index,
                             width_64 |-> metrics.width,
                             height_64 |-> metrics.height,
                             hori_advance_64 |-> metrics.horiAdvance,
                             vert_advance_64 |-> metrics.vertAdvance]),
              calls |-> << "FT_Get_Char_Index", "FT_Set_Char_Size",
                           "FT_Load_Glyph", "glyph.metrics" >>]

FontContext_get_global_size_metrics(context, instance) ==
    IF instance.font_id \notin DOMAIN context.faces
    THEN [context |-> context, result |-> Err("FaceNotFound"), calls |-> <<>>]
    ELSE LET font_id == instance.font_id
             face == context.faces[font_id]
             point_size == instance.size * 64
             set == FontFace_set_char_size(face, point_size, 0, instance.dpi, 0)
             sized == set.val
             face_metrics == FontFace_get_size_metrics(sized).val
         IN  IF IsErr(set)
             THEN [context |-> context, result |-> set,
                   calls |-> << "FT_Set_Char_Size" >>]
             ELSE
             [context |-> [context EXCEPT !.faces[font_id] = sized],
              result |-> Ok([nominal_width |-> face_metrics.x_ppem,
                             nominal_height |-> face_metrics.y_ppem,
                             ascender_64 |-> face_metrics.ascender,
                             descender_64 |-> face_metrics.descender,
                             height_64 |-> face_metrics.height,
                             max_advance_64 |-> face_metrics.max_advance]),
              calls |-> << "FT_Set_Char_Size", "size.metrics" >>]

\* impl PartialEq for GlyphStore: the generation ids are compared.
GlyphStore_eq(a, b) == a.generation_id = b.generation_id

\* text.hash(&mut hasher): the bytes of the text, then 0xff.
FontContext_generation_id(text) == FnvHasher_finish(text \o << 255 >>)

\* A faulty variant of the loop: the pen advances before the glyph is placed.
RECURSIVE FontContext_shape_text_h_chars_advance_first(_, _, _, _, _, _, _)
FontContext_shape_text_h_chars_advance_first(context, instance, chars, pen_position_64, pen_baseline_64, glyphs, calls) ==
    IF chars = <<>>
    THEN [context |-> context, calls |-> calls,
          result |-> Ok([glyphs |-> glyphs, pen_position_64 |-> pen_position_64])]
    ELSE The({ IF IsErr(d.result)
                 THEN [context |-> d.context, calls |-> calls \o d.calls, result |-> d.result]
                 ELSE FontContext_shape_text_h_chars_advance_first(d.context, instance, Tail(chars),
                          pen_position_64 + d.result.val.hori_advance_64,
                          pen_baseline_64,
                          Append(glyphs, DefaultGlyphInstance_new(d.result.val.glyph_index,
                                             pen_position_64 + d.result.val.hori_advance_64,
                                             pen_baseline_64)),
                          calls \o d.calls)
               : d \in { FontContext_get_glyph_dimensions(context, instance, Head(chars)) } })

\* The loop "for c in text.chars()" of shape_text_h, from the character at the
\* head of chars on: the glyph goes at the pen, then the pen advances.
RECURSIVE FontContext_shape_text_h_chars(_, _, _, _, _, _, _)
FontContext_shape_text_h_chars(context, instance, chars, pen_position_64, pen_baseline_64, glyphs, calls) ==
    IF chars = <<>>
    THEN [context |-> context, calls |-> calls,
          result |-> Ok([glyphs |-> glyphs, pen_position_64 |-> pen_position_64])]
    ELSE The({ IF IsErr(d.result)
                 THEN [context |-> d.context, calls |-> calls \o d.calls, result |-> d.result]
                 ELSE FontContext_shape_text_h_chars(d.context, instance, Tail(chars),
                          pen_position_64 + d.result.val.hori_advance_64,
                          pen_baseline_64,
                          Append(glyphs, DefaultGlyphInstance_new(d.result.val.glyph_index,
                                             pen_position_64, pen_baseline_64)),
                          calls \o d.calls)
               : d \in { FontContext_get_glyph_dimensions(context, instance, Head(chars)) } })

\* A faulty variant of the Vacant arm: the entry is filled with an empty store
\* before the queries, and stays when one of them fails.
FontContext_shape_text_h_vacant_reserves(context, instance, text, generation_id) ==
    The({ IF IsErr(m.result)
          THEN [context |-> m.context,
                instance |-> [instance EXCEPT !.shaped_text_h_cache =
                                 MapInsert(@, generation_id,
                                     [generation_id |-> generation_id,
                                      font_key |-> instance.external_key,
                                      font_instance_key |-> instance.external_instance_key,
                                      width_64 |-> 0, height_64 |-> 0, glyphs |-> <<>>])],
                result |-> m.result, calls |-> m.calls]
          ELSE The({ IF IsErr(loop.result)
                     THEN [context |-> loop.context,
                           instance |-> [instance EXCEPT !.shaped_text_h_cache =
                                 MapInsert(@, generation_id,
                                     [generation_id |-> generation_id,
                                      font_key |-> instance.external_key,
                                      font_instance_key |-> instance.external_instance_key,
                                      width_64 |-> 0, height_64 |-> 0, glyphs |-> <<>>])],
                           result |-> loop.result, calls |-> loop.calls]
                     ELSE LET store == [generation_id |-> generation_id,
                                        font_key |-> instance.external_key,
                                        font_instance_key |-> instance.external_instance_key,
                                        width_64 |-> loop.result.val.pen_position_64,
                                        height_64 |-> m.result.val.height_64,
                                        glyphs |-> loop.result.val.glyphs]
                          IN  [context |-> loop.context,
                               instance |-> [instance EXCEPT !.shaped_text_h_cache =
                                                MapInsert(@, generation_id, store)],
                               result |-> Ok(store), calls |-> loop.calls]
                   : loop \in { FontContext_shape_text_h_chars(m.context, instance, text, 0,
                                   m.result.val.ascender_64, <<>>, m.calls) } })
        : m \in { FontContext_get_global_size_metrics(context, instance) } })

\* A faulty variant of the Vacant arm: the new store evicts the stores held.
FontContext_shape_text_h_vacant_evicts(context, instance, text, generation_id) ==
    The({ IF IsErr(m.result)
          THEN [context |-> m.context, instance |-> instance, result |-> m.result,
                calls |-> m.calls]
          ELSE The({ IF IsErr(loop.result)
                     THEN [context |-> loop.context, instance |-> instance,
                           result |-> loop.result, calls |-> loop.calls]
                     ELSE LET store == [generation_id |-> generation_id,
                                        font_key |-> instance.external_key,
                                        font_instance_key |-> instance.external_instance_key,
                                        width_64 |-> loop.result.val.pen_position_64,
                                        height_64 |-> m.result.val.height_64,
                                        glyphs |-> loop.result.val.glyphs]
                          IN  [context |-> loop.context,
                               instance |-> [instance EXCEPT !.shaped_text_h_cache =
                                                MapInsert(EmptyMap, generation_id, store)],
                               result |-> Ok(store), calls |-> loop.calls]
                   : loop \in { FontContext_shape_text_h_chars(m.context, instance, text, 0,
                                   m.result.val.ascender_64, <<>>, m.calls) } })
        : m \in { FontContext_get_global_size_metrics(context, instance) } })

\* The Vacant arm of shape_text_h: the store is computed and inserted.
FontContext_shape_text_h_vacant(context, instance, text, generation_id) ==
    The({ IF IsErr(m.result)
          THEN [context |-> m.context, instance |-> instance, result |-> m.result,
                calls |-> m.calls]
          ELSE The({ IF IsErr(loop.result)
                     THEN [context |-> loop.context, instance |-> instance,
                           result |-> loop.result, calls |-> loop.calls]
                     ELSE LET store == [generation_id |-> generation_id,
                                        font_key |-> instance.external_key,
                                        font_instance_key |-> instance.external_instance_key,
                                        width_64 |-> loop.result.val.pen_position_64,
                                        height_64 |-> m.result.val.height_64,
                                        glyphs |-> loop.result.val.glyphs]
                          IN  [context |-> loop.context,
                               instance |-> [instance EXCEPT !.shaped_text_h_cache =
                                                MapInsert(@, generation_id, store)],
                               result |-> Ok(store), calls |-> loop.calls]
                   : loop \in { FontContext_shape_text_h_chars(m.context, instance, text, 0,
                                   m.result.val.ascender_64, <<>>, m.calls) } })
        : m \in { FontContext_get_global_size_metrics(context, instance) } })

\* A faulty variant of shape_text_h: a cached store is never looked up.
FontContext_shape_text_h_uncached(context, instance, text) ==
    FontContext_shape_text_h_vacant(context, instance, text, FontContext_generation_id(text))

FontContext_shape_text_h(context, instance, text) ==
    LET generation_id == FontContext_generation_id(text)
    IN  IF generation_id \in DOMAIN instance.shaped_text_h_cache
        THEN [context |-> context, instance |-> instance,
              result |-> Ok(instance.shaped_text_h_cache[generation_id]),
              calls |-> <<>>]
        ELSE FontContext_shape_text_h_vacant(context, instance, text, generation_id)

\* A faulty variant of the loop: the pen runs along x, as in horizontal text.
RECURSIVE FontContext_shape_text_v_chars_along_x(_, _, _, _, _, _)
FontContext_shape_text_v_chars_along_x(context, instance, chars, pen_position_64, glyphs, calls) ==
    IF chars = <<>>
    THEN [context |-> context, calls |-> calls,
          result |-> Ok([glyphs |-> glyphs, pen_position_64 |-> pen_position_64])]
    ELSE The({ IF IsErr(d.result)
                 THEN [context |-> d.context, calls |-> calls \o d.calls, result |-> d.result]
                 ELSE FontContext_shape_text_v_chars_along_x(d.context, instance, Tail(chars),
                          pen_position_64 + d.result.val.vert_advance_64,
                          Append(glyphs, DefaultGlyphInstance_new(d.result.val.glyph_index,
                                             pen_position_64, 0)),
                          calls \o d.calls)
               : d \in { FontContext_get_glyph_dimensions(context, instance, Head(chars)) } })

\* The loop "for c in text.chars()" of shape_text_v.
RECURSIVE FontContext_shape_text_v_chars(_, _, _, _, _, _)
FontContext_shape_text_v_chars(context, instance, chars, pen_position_64, glyphs, calls) ==
    IF chars = <<>>
    THEN [context |-> context, calls |-> calls,
          result |-> Ok([glyphs |-> glyphs, pen_position_64 |-> pen_position_64])]
    ELSE The({ IF IsErr(d.result)
                 THEN [context |-> d.context, calls |-> calls \o d.calls, result |-> d.result]
                 ELSE FontContext_shape_text_v_chars(d.context, instance, Tail(chars),
                          pen_position_64 + d.result.val.vert_advance_64,
                          Append(glyphs, DefaultGlyphInstance_new(d.result.val.glyph_index,
                                             0, pen_position_64)),
                          calls \o d.calls)
               : d \in { FontContext_get_glyph_dimensions(context, instance, Head(chars)) } })

FontContext_shape_text_v(context, instance, text) ==
    LET generation_id == FontContext_generation_id(text)
    IN  IF generation_id \in DOMAIN instance.shaped_text_v_cache
        THEN [context |-> context, instance |-> instance,
              result |-> Ok(instance.shaped_text_v_cache[generation_id]),
              calls |-> <<>>]
        ELSE The({ IF IsErr(m.result)
                   THEN [context |-> m.context, instance |-> instance,
                         result |-> m.result, calls |-> m.calls]
                   ELSE The({ IF IsErr(loop.result)
                              THEN [context |-> loop.context, instance |-> instance,
                                    result |-> loop.result, calls |-> loop.calls]
                              ELSE LET store ==
                                           [generation_id |-> generation_id,
                                            font_key |-> instance.external_key,
                                            font_instance_key |-> instance.external_instance_key,
                                            width_64 |-> m.result.val.max_advance_64,
                                            height_64 |-> loop.result.val.pen_position_64,
                                            glyphs |-> loop.result.val.glyphs]
                                   IN  [context |-> loop.context,
                                        instance |-> [instance EXCEPT !.shaped_text_v_cache =
                                                         MapInsert(@, generation_id, store)],
                                        result |-> Ok(store), calls |-> loop.calls]
                            : loop \in { FontContext_shape_text_v_chars(m.context, instance,
                                            text, 0, <<>>, m.calls) } })
                 : m \in { FontContext_get_global_size_metrics(context, instance) } })

FontInstanceResourceData_new(size, dpi) == [size |-> size, dpi |-> dpi]

FontCache_new ==
    [api |-> DefaultFontKeysAPI_new, context |-> FontContext_new,
     instances |-> EmptyMap, default_font |-> None]

\* The Entry::Vacant arm of add_font: allocate both keys, insert the instance.
FontCache_add_font_vacant(cache, font_id, font_instance_id, encoded) ==
    LET size == font_instance_id.size
        dpi == font_instance_id.dpi
        instance_data == FontInstanceResourceData_new(size, dpi)
        k == DefaultFontKeysAPI_add_font(cache.api, EncodedFont_info(encoded))
        ik == DefaultFontKeysAPI_add_font_instance(k.api, k.key, instance_data)
        instance == FontInstance_new(font_id, size, dpi, k.key, ik.key)
    IN  [cache |-> [cache EXCEPT
                      !.api = ik.api,
                      !.instances = MapInsert(@, font_instance_id, instance)],
         result |-> Ok(Unit),
         pushed |-> k.pushed \o ik.pushed]

\* A faulty variant of add_font: the default font is set, not get_or_insert-ed.
FontCache_add_font_sets_default(cache, font_id, encoded, face_index) ==
    LET decoded == DecodedFont_from_encoded_font(encoded, face_index)
        added == FontContext_add_face(cache.context, font_id, decoded.bytes, face_index)
        family_name == FontContext_get_family_name(added.context, font_id)
        font_instance_id ==
            FontInstanceId_from_family_str(
                family_name.val, DEFAULT_FONT_SIZE, DEFAULT_FONT_DPI)
        cache1 == [cache EXCEPT !.context = added.context]
        cache2 == [cache1 EXCEPT !.default_font = Some(font_instance_id)]
    IN  IF IsErr(added.result)
        THEN [cache |-> cache, result |-> added.result, pushed |-> <<>>]
        ELSE IF IsErr(family_name)
        THEN [cache |-> cache1, result |-> family_name, pushed |-> <<>>]
        ELSE IF font_instance_id \in DOMAIN cache2.instances
        THEN [cache |-> cache2, result |-> Err("FontInstanceAlreadyAdded"),
              pushed |-> <<>>]
        ELSE FontCache_add_font_vacant(cache2, font_id, font_instance_id, encoded)

\* A faulty variant of add_font: the instance dictionary is looked at before
\* the face is registered, so a refused add leaves the font context alone.
FontCache_add_font_checks_first(cache, font_id, encoded, face_index) ==
    LET decoded == DecodedFont_from_encoded_font(encoded, face_index)
        added == FontContext_add_face(cache.context, font_id, decoded.bytes, face_index)
        family_name == FontContext_get_family_name(added.context, font_id)
        font_instance_id ==
            FontInstanceId_from_family_str(
                family_name.val, DEFAULT_FONT_SIZE, DEFAULT_FONT_DPI)
        cache1 == [cache EXCEPT !.context = added.context]
        cache2 == [cache1 EXCEPT
                     !.default_font = IF @ = None THEN Some(font_instance_id) ELSE @]
    IN  IF IsErr(added.result)
        THEN [cache |-> cache, result |-> added.result, pushed |-> <<>>]
        ELSE IF IsErr(family_name)
        THEN [cache |-> cache1, result |-> family_name, pushed |-> <<>>]
        ELSE IF font_instance_id \in DOMAIN cache2.instances
        THEN [cache |-> cache, result |-> Err("FontInstanceAlreadyAdded"),
              pushed |-> <<>>]
        ELSE FontCache_add_font_vacant(cache2, font_id, font_instance_id, encoded)

\* A faulty variant of add_font: the instance is registered under the font
\* identity the caller gave, not under the family name the engine reports.
FontCache_add_font_by_font_name(cache, font_id, encoded, face_index) ==
    LET decoded == DecodedFont_from_encoded_font(encoded, face_index)
        added == FontContext_add_face(cache.context, font_id, decoded.bytes, face_index)
        family_name == FontContext_get_family_name(added.context, font_id)
        font_instance_id ==
            FontInstanceId_from_family_hash(
                font_id, DEFAULT_FONT_SIZE, DEFAULT_FONT_DPI)
        cache1 == [cache EXCEPT !.context = added.context]
        cache2 == [cache1 EXCEPT
                     !.default_font = IF @ = None THEN Some(font_instance_id) ELSE @]
    IN  IF IsErr(added.result)
        THEN [cache |-> cache, result |-> added.result, pushed |-> <<>>]
        ELSE IF IsErr(family_name)
        THEN [cache |-> cache1, result |-> family_name, pushed |-> <<>>]
        ELSE IF font_instance_id \in DOMAIN cache2.instances
        THEN [cache |-> cache2, result |-> Err("FontInstanceAlreadyAdded"),
              pushed |-> <<>>]
        ELSE FontCache_add_font_vacant(cache2, font_id, font_instance_id, encoded)

FontCache_add_font(cache, font_id, encoded, face_index) ==
    LET decoded == DecodedFont_from_encoded_font(encoded, face_index)
        added == FontContext_add_face(cache.context, font_id, decoded.bytes, face_index)
        family_name == FontContext_get_family_name(added.context, font_id)
        font_instance_id ==
            FontInstanceId_from_family_str(
                family_name.val, DEFAULT_FONT_SIZE, DEFAULT_FONT_DPI)
        cache1 == [cache EXCEPT !.context = added.context]
        cache2 == [cache1 EXCEPT
                     !.default_font = IF @ = None THEN Some(font_instance_id) ELSE @]
    IN  IF IsErr(added.result)
        THEN [cache |-> cache1, result |-> added.result, pushed |-> <<>>]
        ELSE IF IsErr(family_name)
        THEN [cache |-> cache1, result |-> family_name, pushed |-> <<>>]
        ELSE IF font_instance_id \in DOMAIN cache2.instances
        THEN [cache |-> cache2, result |-> Err("FontInstanceAlreadyAdded"),
              pushed |-> <<>>]
        ELSE FontCache_add_font_vacant(cache2, font_id, font_instance_id, encoded)

FontCache_add_raw(cache, font_id, bytes, face_index) ==
    LET encoded == EncodedFont_from_bytes(bytes)
    IN  FontCache_add_font(cache, font_id, encoded.val, face_index)

FontCache_set_default_font(cache, family_name, size, dpi) ==
    [cache EXCEPT
       !.default_font = Some(FontInstanceId_from_family_str(family_name, size, dpi))]

\* A faulty variant of get_default_font: the instance of the selected family at
\* the default size and DPI is returned, whatever size and DPI are selected.
FontCache_get_default_font_of_family(cache) ==
    IF cache.default_font = None THEN None
    ELSE MapGet(cache.instances,
                FontInstanceId_resize_dpi(
                    cache.default_font.val, DEFAULT_FONT_SIZE, DEFAULT_FONT_DPI))

FontCache_get_default_font(cache) ==
    IF cache.default_font = None THEN None
    ELSE MapGet(cache.instances, cache.default_font.val)

\* A faulty variant of the default lookup: a missing default instance is not noticed.
FontCache_get_or_insert_font_default_unchecked(cache, font_instance_id) ==
    LET default_id ==
            FontInstanceId_resize_dpi(
                font_instance_id, DEFAULT_FONT_SIZE, DEFAULT_FONT_DPI)
        instance == MapGet(cache.instances, default_id)
    IN  IF instance = None
        THEN Some([font_id |-> 0, external_key |-> 0])
        ELSE Some([font_id |-> instance.val.font_id,
                   external_key |-> instance.val.external_key])

\* get_or_insert_font, first block: the font id and font key of the instance
\* registered for the family at the default size and DPI.
FontCache_get_or_insert_font_default(cache, font_instance_id) ==
    LET default_id ==
            FontInstanceId_resize_dpi(
                font_instance_id, DEFAULT_FONT_SIZE, DEFAULT_FONT_DPI)
        instance == MapGet(cache.instances, default_id)
    IN  IF instance = None
        THEN None
        ELSE Some([font_id |-> instance.val.font_id,
                   external_key |-> instance.val.external_key])

\* A faulty variant of the Vacant arm: the variant gets a font key of its own.
FontCache_get_or_insert_font_vacant_new_font_key(cache, font_instance_id, font_id, external_key) ==
    LET size == font_instance_id.size
        dpi == font_instance_id.dpi
        instance_data == FontInstanceResourceData_new(size, dpi)
        k == DefaultFontKeysAPI_add_font(
                 cache.api,
                 [variant |-> "Bytes", bytes |-> cache.context.faces[font_id].bytes])
        ik == DefaultFontKeysAPI_add_font_instance(k.api, k.key, instance_data)
        instance == FontInstance_new(font_id, size, dpi, k.key, ik.key)
    IN  [cache |-> [cache EXCEPT
                      !.api = ik.api,
                      !.instances = MapInsert(@, font_instance_id, instance)],
         result |-> Some(instance),
         pushed |-> k.pushed \o ik.pushed]

\* A faulty variant of the Vacant arm: the instance is built at the default size.
FontCache_get_or_insert_font_vacant_default_sized(cache, font_instance_id, font_id, external_key) ==
    LET size == DEFAULT_FONT_SIZE
        dpi == font_instance_id.dpi
        instance_data == FontInstanceResourceData_new(size, dpi)
        ik == DefaultFontKeysAPI_add_font_instance(
                  cache.api, external_key, instance_data)
        instance == FontInstance_new(font_id, size, dpi, external_key, ik.key)
    IN  [cache |-> [cache EXCEPT
                      !.api = ik.api,
                      !.instances = MapInsert(@, font_instance_id, instance)],
         result |-> Some(instance),
         pushed |-> ik.pushed]

\* The Entry::Vacant arm of get_or_insert_font.
FontCache_get_or_insert_font_vacant(cache, font_instance_id, font_id, external_key) ==
    LET size == font_instance_id.size
        dpi == font_instance_id.dpi
        instance_data == FontInstanceResourceData_new(size, dpi)
        ik == DefaultFontKeysAPI_add_font_instance(
                  cache.api, external_key, instance_data)
        instance == FontInstance_new(font_id, size, dpi, external_key, ik.key)
    IN  [cache |-> [cache EXCEPT
                      !.api = ik.api,
                      !.instances = MapInsert(@, font_instance_id, instance)],
         result |-> Some(instance),
         pushed |-> ik.pushed]

\* A faulty variant of the entry match: an instance is created on every call.
FontCache_get_or_insert_font_entry_always_vacant(cache, font_instance_id, font_id, external_key) ==
    FontCache_get_or_insert_font_vacant(cache, font_instance_id, font_id, external_key)

\* get_or_insert_font, second block: the match on the instance's entry.
FontCache_get_or_insert_font_entry(cache, font_instance_id, font_id, external_key) ==
    IF font_instance_id \in DOMAIN cache.instances
    THEN [cache |-> cache, result |-> Some(cache.instances[font_instance_id]),
          pushed |-> <<>>]
    ELSE FontCache_get_or_insert_font_vacant(
             cache, font_instance_id, font_id, external_key)

FontCache_get_or_insert_font(cache, font_instance_id) ==
    LET found == FontCache_get_or_insert_font_default(cache, font_instance_id)
    IN  IF found = None
        THEN [cache |-> cache, result |-> None, pushed |-> <<>>]
        ELSE FontCache_get_or_insert_font_entry(
                 cache, font_instance_id, found.val.font_id, found.val.external_key)

\* A faulty variant of get_default_font_with_size: the id is not resized.
FontCache_get_default_font_with_size_unsized(cache, size) ==
    IF cache.default_font = None
    THEN [cache |-> cache, result |-> None, pushed |-> <<>>]
    ELSE FontCache_get_or_insert_font(cache, cache.default_font.val)

FontCache_get_default_font_with_size(cache, size) ==
    IF cache.default_font = None
    THEN [cache |-> cache, result |-> None, pushed |-> <<>>]
    ELSE FontCache_get_or_insert_font(
             cache, FontInstanceId_resize(cache.default_font.val, size))

\* A faulty variant of get_default_font_with_size_and_dpi: the resized id is
\* kept as the default font.
FontCache_get_default_font_with_size_and_dpi_selects(cache, size, dpi) ==
    IF cache.default_font = None
    THEN [cache |-> cache, result |-> None, pushed |-> <<>>]
    ELSE LET id == FontInstanceId_resize_dpi(cache.default_font.val, size, dpi)
             r == FontCache_get_or_insert_font(cache, id)
         IN  [r EXCEPT !.cache.default_font = Some(id)]

FontCache_get_default_font_with_size_and_dpi(cache, size, dpi) ==
    IF cache.default_font = None
    THEN [cache |-> cache, result |-> None, pushed |-> <<>>]
    ELSE FontCache_get_or_insert_font(
             cache, FontInstanceId_resize_dpi(cache.default_font.val, size, dpi))

\* The encoded fonts handed to add_font: built by from_data_uri from the data
\* URI of a font file (add_raw hands over the ones built by from_bytes).
EncodedFonts ==
    { EncodedFont_BytesAndDataUri(b, to_font_data_uri(b)) :
        b \in { FreeSansTtf, FiraMonoTtf } }

----------------------------------------------------------------------------
(* The calls on the font cache.  A call that would allocate more than        *)
(* MaxFontInstanceKeys instance keys is not made.                           *)

MaxFontInstanceKeys == 3

\* FontCache::get_glyph_dimensions and get_global_size_metrics on the instance
\* the cache holds under font_instance_id.
FontCache_get_glyph_dimensions(cache, font_instance_id, c) ==
    The({ [cache |-> [cache EXCEPT !.context = r.context],
           result |-> r.result, calls |-> r.calls]
        : r \in { FontContext_get_glyph_dimensions(cache.context,
                       cache.instances[font_instance_id], c) } })

FontCache_get_global_size_metrics(cache, font_instance_id) ==
    The({ [cache |-> [cache EXCEPT !.context = r.context],
           result |-> r.result, calls |-> r.calls]
        : r \in { FontContext_get_global_size_metrics(cache.context,
                       cache.instances[font_instance_id]) } })

\* FontCache::shape_text_h on the instance the cache holds under
\* font_instance_id: the instance is shared, so its cache of shaped texts is
\* the one the call fills.
FontCache_shape_text_h(cache, font_instance_id, text) ==
    The({ [cache |-> [cache EXCEPT !.context = r.context,
                                   !.instances[font_instance_id] = r.instance],
           result |-> r.result, calls |-> r.calls]
        : r \in { FontContext_shape_text_h(cache.context,
                       cache.instances[font_instance_id], text) } })

FontCache_shape_text_v(cache, font_instance_id, text) ==
    The({ [cache |-> [cache EXCEPT !.context = r.context,
                                   !.instances[font_instance_id] = r.instance],
           result |-> r.result, calls |-> r.calls]
        : r \in { FontContext_shape_text_v(cache.context,
                       cache.instances[font_instance_id], text) } })

WithinFontBounds(cache) == cache.api.next_font_instance_key <= MaxFontInstanceKeys

FontAddRaw(name, bytes, face_index) ==
    LET r == FontCache_add_raw(font_cache, FontId_new(name), bytes, face_index)
    IN  /\ WithinFontBounds(r.cache)
        /\ font_cache' = r.cache
        /\ font_appended' = font_appended \o r.pushed
        /\ call' = [op |-> "FontCache::add_raw"]
        /\ ret' = r.result
        /\ UNCHANGED << borrows, font_taken_at, font_taken, engine_queries, image_vars, file_vars >>

FontAddFont(name, encoded, face_index) ==
    LET r == FontCache_add_font(font_cache, FontId_new(name), encoded, face_index)
    IN  /\ WithinFontBounds(r.cache)
        /\ font_cache' = r.cache
        /\ font_appended' = font_appended \o r.pushed
        /\ call' = [op |-> "FontCache::add_font"]
        /\ ret' = r.result
        /\ UNCHANGED << borrows, font_taken_at, font_taken, engine_queries, image_vars, file_vars >>

FontSetDefaultFont(family_name, size, dpi) ==
    /\ font_cache' = FontCache_set_default_font(font_cache, family_name, size, dpi)
    /\ call' = [op |-> "FontCache::set_default_font"]
    /\ ret' = Unit
    /\ UNCHANGED << borrows, font_appended, font_taken_at, font_taken, engine_queries, image_vars, file_vars >>

FontGetDefaultFont ==
    /\ call' = [op |-> "FontCache::get_default_font"]
    /\ ret' = FontCache_get_default_font(font_cache)
    /\ UNCHANGED << borrows, font_vars, image_vars, file_vars >>

FontGetDefaultFontWithSize(size) ==
    LET r == FontCache_get_default_font_with_size(font_cache, size)
    IN  /\ WithinFontBounds(r.cache)
        /\ font_cache' = r.cache
        /\ font_appended' = font_appended \o r.pushed
        /\ call' = [op |-> "FontCache::get_default_font_with_size"]
        /\ ret' = r.result
        /\ UNCHANGED << borrows, font_taken_at, font_taken, engine_queries, image_vars, file_vars >>

FontGetDefaultFontWithSizeAndDpi(size, dpi) ==
    LET r == FontCache_get_default_font_with_size_and_dpi(font_cache, size, dpi)
    IN  /\ WithinFontBounds(r.cache)
        /\ font_cache' = r.cache
        /\ font_appended' = font_appended \o r.pushed
        /\ call' = [op |-> "FontCache::get_default_font_with_size_and_dpi"]
        /\ ret' = r.result
        /\ UNCHANGED << borrows, font_taken_at, font_taken, engine_queries, image_vars, file_vars >>

FontGetOrInsertFont(family_name, size, dpi) ==
    LET font_instance_id == FontInstanceId_from_family_str(family_name, size, dpi)
        r == FontCache_get_or_insert_font(font_cache, font_instance_id)
    IN  /\ WithinFontBounds(r.cache)
        /\ font_cache' = r.cache
        /\ font_appended' = font_appended \o r.pushed
        /\ call' = [op |-> "FontCache::get_or_insert_font"]
        /\ ret' = r.result
        /\ UNCHANGED << borrows, font_taken_at, font_taken, engine_queries, image_vars, file_vars >>

FontTakeResourceUpdates ==
    LET r == DefaultFontKeysAPI_take_resource_updates(font_cache.api)
    IN  /\ font_cache' = [font_cache EXCEPT !.api = r.api]
        /\ font_taken_at' = Len(font_appended)
        /\ font_taken' = font_taken \o r.result.updates
        /\ call' = [op |-> "DefaultFontKeysAPI::take_resource_updates"]
        /\ ret' = r.result
        /\ UNCHANGED << borrows, font_appended, engine_queries, image_vars, file_vars >>

MaxShapedTexts == 2

RECURSIVE SumOver(_, _)
SumOver(S, f) ==
    IF S = {} THEN 0
    ELSE LET x == CHOOSE y \in S : TRUE IN f[x] + SumOver(S \ {x}, f)

\* The number of shaped texts the instances of a cache hold.
ShapedTexts(cache) ==
    SumOver(DOMAIN cache.instances,
            [id \in DOMAIN cache.instances |->
                Cardinality(DOMAIN cache.instances[id].shaped_text_h_cache)
                + Cardinality(DOMAIN cache.instances[id].shaped_text_v_cache)])

WithinShapeBounds(cache) == ShapedTexts(cache) <= MaxShapedTexts

FontShapeTextH(font_instance_id, text) ==
    /\ font_instance_id \in DOMAIN font_cache.instances
    /\ \E r \in { FontCache_shape_text_h(font_cache, font_instance_id, text) } :
           /\ WithinShapeBounds(r.cache)
           /\ font_cache' = r.cache
           /\ engine_queries' = r.calls
           /\ call' = [op |-> "FontCache::shape_text_h"]
           /\ ret' = r.result
           /\ UNCHANGED << borrows, font_appended, font_taken_at, font_taken, image_vars, file_vars >>

FontShapeTextV(font_instance_id, text) ==
    /\ font_instance_id \in DOMAIN font_cache.instances
    /\ \E r \in { FontCache_shape_text_v(font_cache, font_instance_id, text) } :
           /\ WithinShapeBounds(r.cache)
           /\ font_cache' = r.cache
           /\ engine_queries' = r.calls
           /\ call' = [op |-> "FontCache::shape_text_v"]
           /\ ret' = r.result
           /\ UNCHANGED << borrows, font_appended, font_taken_at, font_taken, image_vars, file_vars >>

----------------------------------------------------------------------------
(* Font instance identities, built and resized *)

IdSizes == { 12, DEFAULT_FONT_SIZE, 24 }
IdDpis == { DEFAULT_FONT_DPI, 96 }

\* The last call built a font instance id: ret holds it.
HoldsId == call.op \in { "FontInstanceId::from_family_str",
                         "FontInstanceId::resize", "FontInstanceId::resize_dpi" }

IdFromFamilyStr(family_name, size, dpi) ==
    /\ call' = [op |-> "FontInstanceId::from_family_str",
                family_name |-> family_name, size |-> size, dpi |-> dpi]
    /\ ret' = FontInstanceId_from_family_str(family_name, size, dpi)
    /\ UNCHANGED << borrows, image_vars, font_vars, file_vars >>

\* resize on the id the last call returned; family_name is the name it was
\* first built from.
IdResize(size) ==
    /\ HoldsId
    /\ call' = [op |-> "FontInstanceId::resize", family_name |-> call.family_name,
                self |-> ret, size |-> size]
    /\ ret' = FontInstanceId_resize(ret, size)
    /\ UNCHANGED << borrows, image_vars, font_vars, file_vars >>

IdResizeDpi(size, dpi) ==
    /\ HoldsId
    /\ call' = [op |-> "FontInstanceId::resize_dpi", family_name |-> call.family_name,
                self |-> ret, size |-> size, dpi |-> dpi]
    /\ ret' = FontInstanceId_resize_dpi(ret, size, dpi)
    /\ UNCHANGED << borrows, image_vars, font_vars, file_vars >>

IdNext ==
    \/ \E family_name \in FamilyNames, size \in IdSizes, dpi \in IdDpis :
          IdFromFamilyStr(family_name, size, dpi)
    \/ \E size \in IdSizes : IdResize(size)
    \/ \E size \in IdSizes, dpi \in IdDpis : IdResizeDpi(size, dpi)

----------------------------------------------------------------------------
(* Metrics queries on instances that share a face *)

FontGetGlyphDimensions(font_instance_id, c) ==
    /\ font_instance_id \in DOMAIN font_cache.instances
    /\ \E r \in { FontCache_get_glyph_dimensions(font_cache, font_instance_id, c) } :
           /\ font_cache' = r.cache
           /\ engine_queries' = r.calls
           /\ call' = [op |-> "FontCache::get_glyph_dimensions"]
           /\ ret' = r.result
           /\ UNCHANGED << borrows, font_appended, font_taken_at, font_taken, image_vars, file_vars >>

FontGetGlobalSizeMetrics(font_instance_id) ==
    /\ font_instance_id \in DOMAIN font_cache.instances
    /\ \E r \in { FontCache_get_global_size_metrics(font_cache, font_instance_id) } :
           /\ font_cache' = r.cache
           /\ engine_queries' = r.calls
           /\ call' = [op |-> "FontCache::get_global_size_metrics"]
           /\ ret' = r.result
           /\ UNCHANGED << borrows, font_appended, font_taken_at, font_taken, image_vars, file_vars >>

\* The instances of FreeSans, at each size and DPI asked for.
MetricsInstanceIds ==
    { FontInstanceId_from_family_str(TextFreeSans, variant[1], variant[2]) :
        variant \in FontVariants }

\* 'H' and 'i'
MetricsChars == { 72, 105 }

MetricsNext ==
    \/ FontAddRaw(TextFreeSans, FreeSansTtf, 0)
    \/ \E variant \in FontVariants :
          FontGetOrInsertFont(TextFreeSans, variant[1], variant[2])
    \/ \E font_instance_id \in MetricsInstanceIds, c \in MetricsChars :
          FontGetGlyphDimensions(font_instance_id, c)
    \/ \E font_instance_id \in MetricsInstanceIds :
          FontGetGlobalSizeMetrics(font_instance_id)
    \/ \E font_instance_id \in MetricsInstanceIds :
          FontShapeTextH(font_instance_id, TextHi)

ShapeInstanceIds ==
    { FontInstanceId_from_family_str(TextFreeSans, size, DEFAULT_FONT_DPI) : size \in FontSizes }

\* The instance is handed to shape_text_h of another font cache, a new one:
\* its font context has no face for the instance's font.
FontShapeTextHElsewhere(font_instance_id, text) ==
    /\ font_instance_id \in DOMAIN font_cache.instances
    /\ \E r \in { FontContext_shape_text_h(
                     FontContext_new, font_cache.instances[font_instance_id], text) } :
           /\ font_cache' = [font_cache EXCEPT !.instances[font_instance_id] = r.instance]
           /\ engine_queries' = r.calls
           /\ call' = [op |-> "FontCache::shape_text_h", elsewhere |-> TRUE]
           /\ ret' = r.result
           /\ UNCHANGED << borrows, font_appended, font_taken_at, font_taken, image_vars, file_vars >>

\* The instances shaped on in FailNext: the two families at the default size.
FailInstanceIds ==
    { FontInstanceId_from_family_str(family_name, DEFAULT_FONT_SIZE, DEFAULT_FONT_DPI) :
        family_name \in { TextFreeSans, TextFiraSpaceMono } }

\* Shaping with fonts the engine opens but cannot fully serve.
FailNext ==
    \/ \E bytes \in { FreeSansTtf, CorruptGlyphTtf } : FontAddRaw(TextFreeSans, bytes, 0)
    \/ FontAddRaw(TextFiraMono, BitmapOnlyTtf, 0)
    \/ \E font_instance_id \in FailInstanceIds, text \in ShapeTexts :
          FontShapeTextH(font_instance_id, text)
    \/ \E font_instance_id \in FailInstanceIds, text \in ShapeTexts :
          FontShapeTextV(font_instance_id, text)
    \/ \E font_instance_id \in FailInstanceIds, text \in ShapeTexts :
          FontShapeTextHElsewhere(font_instance_id, text)

\* Shaping among the other calls on the font cache.
KeepNext ==
    \/ FontAddRaw(TextFreeSans, FreeSansTtf, 0)
    \/ FontAddRaw(TextFiraMono, FiraMonoTtf, 0)
    \/ FontAddRaw(TextFiraMono, FreeSansTtf, 0)
    \/ FontGetOrInsertFont(TextFreeSans, 24, DEFAULT_FONT_DPI)
    \/ FontTakeResourceUpdates
    \/ \E font_instance_id \in ShapeInstanceIds, text \in { TextHi, TextIH } :
          FontShapeTextH(font_instance_id, text)
    \/ \E font_instance_id \in ShapeInstanceIds :
          FontShapeTextV(font_instance_id, TextHi)

ShapeNext ==
    \/ FontAddRaw(TextFreeSans, FreeSansTtf, 0)
    \/ \E size \in FontSizes :
          FontGetOrInsertFont(TextFreeSans, size, DEFAULT_FONT_DPI)
    \/ \E font_instance_id \in ShapeInstanceIds, text \in ShapeTexts :
          FontShapeTextH(font_instance_id, text)
    \/ \E font_instance_id \in ShapeInstanceIds, text \in ShapeTexts :
          FontShapeTextV(font_instance_id, text)

FontNext ==
    \/ \E name \in FontNames, file \in FontFiles :
          FontAddRaw(name, file[1], file[2])
    \/ \E name \in FontNames, encoded \in EncodedFonts :
          FontAddFont(name, encoded, 0)
    \/ \E family_name \in FamilyNames, size \in FontSizes :
          FontSetDefaultFont(family_name, size, DEFAULT_FONT_DPI)
    \/ FontGetDefaultFont
    \/ \E size \in FontSizes : FontGetDefaultFontWithSize(size)
    \/ \E variant \in FontVariants :
          FontGetDefaultFontWithSizeAndDpi(variant[1], variant[2])
    \/ \E family_name \in FamilyNames, variant \in FontVariants :
          FontGetOrInsertFont(family_name, variant[1], variant[2])

----------------------------------------------------------------------------
(* rsx-files.  The file system is the environment: disk maps a canonical    *)
(* path to the content of the file there, if there is one.                  *)

FileContents == { << 1 >>, << 2, 2 >> }

\* The canonical path a path resolves to, by the directory structure alone.
Resolve(src) == IF src = PathRelativeA THEN PathRootA ELSE src

\* fs::canonicalize fails when the path does not exist.
fs_canonicalize(d, src) ==
    IF d[Resolve(src)] = None THEN Err("IOError") ELSE Ok(Resolve(src))

\* A faulty variant of FileId::new: the path is hashed as given.
FileId_new_as_given(d, src) ==
    IF IsErr(fs_canonicalize(d, src)) THEN fs_canonicalize(d, src)
    ELSE Ok(FnvHasher_finish(src))

FileId_new(d, src) ==
    LET canonical == fs_canonicalize(d, src)
    IN  IF IsErr(canonical) THEN canonical
        ELSE Ok(FnvHasher_finish(canonical.val))

\* util::load_bytes reads the full file into a buffer.
load_bytes(d, src) ==
    IF d[Resolve(src)] = None THEN Err("IOError") ELSE Ok(d[Resolve(src)].val)

FileCache_new == [files |-> EmptyMap]

\* A faulty variant of add_file: the file is read before the entry is matched.
FileCache_add_file_read_first(cache, d, src) ==
    LET file_id == FileId_new(d, src)
        bytes == load_bytes(d, src)
    IN  IF IsErr(file_id)
        THEN [cache |-> cache, result |-> file_id, reads |-> 0]
        ELSE IF IsErr(bytes)
        THEN [cache |-> cache, result |-> bytes, reads |-> 1]
        ELSE IF file_id.val \in DOMAIN cache.files
        THEN [cache |-> cache, result |-> Err("FileAlreadyAdded"), reads |-> 1]
        ELSE [cache |-> [files |-> MapInsert(cache.files, file_id.val, bytes.val)],
              result |-> Ok(Unit), reads |-> 1]

\* A faulty variant of add_file: a file that is in the cache is read again and
\* its buffer replaced.
FileCache_add_file_reloads(cache, d, src) ==
    LET file_id == FileId_new(d, src)
        bytes == load_bytes(d, src)
    IN  IF IsErr(file_id)
        THEN [cache |-> cache, result |-> file_id, reads |-> 0]
        ELSE IF IsErr(bytes)
        THEN [cache |-> cache, result |-> bytes, reads |-> 1]
        ELSE IF file_id.val \in DOMAIN cache.files
        THEN [cache |-> [files |-> MapInsert(cache.files, file_id.val, bytes.val)],
              result |-> Err("FileAlreadyAdded"), reads |-> 1]
        ELSE [cache |-> [files |-> MapInsert(cache.files, file_id.val, bytes.val)],
              result |-> Ok(Unit), reads |-> 1]

\* reads is the number of times the call read the file.
FileCache_add_file(cache, d, src) ==
    LET file_id == FileId_new(d, src)
        bytes == load_bytes(d, src)
    IN  IF IsErr(file_id)
        THEN [cache |-> cache, result |-> file_id, reads |-> 0]
        ELSE IF file_id.val \in DOMAIN cache.files
        THEN [cache |-> cache, result |-> Err("FileAlreadyAdded"), reads |-> 0]
        ELSE IF IsErr(bytes)
        THEN [cache |-> cache, result |-> bytes, reads |-> 1]
        ELSE [cache |-> [files |-> MapInsert(cache.files, file_id.val, bytes.val)],
              result |-> Ok(Unit), reads |-> 1]

\* A faulty variant of get_file: a file that is not in the cache is loaded into it.
FileCache_get_file_or_load(cache, d, src) ==
    LET file_id == FileId_new(d, src)
    IN  IF IsErr(file_id) THEN [cache |-> cache, result |-> file_id]
        ELSE IF file_id.val \in DOMAIN cache.files
        THEN [cache |-> cache, result |-> Ok(cache.files[file_id.val])]
        ELSE [cache |-> [files |-> MapInsert(cache.files, file_id.val,
                                              load_bytes(d, src).val)],
              result |-> Err("FileNotFound")]

\* get_file takes &self: the cache it leaves is the cache it was given.
FileCache_get_file(cache, d, src) ==
    LET file_id == FileId_new(d, src)
    IN  IF IsErr(file_id) THEN [cache |-> cache, result |-> file_id]
        ELSE IF file_id.val \in DOMAIN cache.files
        THEN [cache |-> cache, result |-> Ok(cache.files[file_id.val])]
        ELSE [cache |-> cache, result |-> Err("FileNotFound")]

----------------------------------------------------------------------------
(* The calls on the file cache, and what happens to the files meanwhile *)

FileAddFile(src) ==
    LET r == FileCache_add_file(file_cache, disk, src)
    IN  /\ file_cache' = r.cache
        /\ disk_reads' = disk_reads + r.reads
        /\ call' = [op |-> "FileCache::add_file", src |-> src]
        /\ ret' = r.result
        /\ UNCHANGED << borrows, disk, image_vars, font_vars >>

FileGetFile(src) ==
    /\ call' = [op |-> "FileCache::get_file", src |-> src]
    /\ ret' = FileCache_get_file(file_cache, disk, src).result
    /\ file_cache' = FileCache_get_file(file_cache, disk, src).cache
    /\ UNCHANGED << borrows, disk, disk_reads, image_vars, font_vars >>

\* Another program creates or rewrites the file at path.
DiskWrite(path, content) ==
    /\ disk[path] # Some(content)
    /\ disk' = [disk EXCEPT ![path] = Some(content)]
    /\ call' = [op |-> "fs::write", src |-> path]
    /\ ret' = Unit
    /\ UNCHANGED << borrows, file_cache, disk_reads, image_vars, font_vars >>

\* Another program removes the file at path.
DiskRemove(path) ==
    /\ disk[path] # None
    /\ disk' = [disk EXCEPT ![path] = None]
    /\ call' = [op |-> "fs::remove_file", src |-> path]
    /\ ret' = Unit
    /\ UNCHANGED << borrows, file_cache, disk_reads, image_vars, font_vars >>

FileNext ==
    \/ \E src \in Paths : FileAddFile(src)
    \/ \E src \in Paths : FileGetFile(src)
    \/ \E path \in CanonicalPaths, content \in FileContents : DiskWrite(path, content)
    \/ \E path \in CanonicalPaths : DiskRemove(path)

----------------------------------------------------------------------------
(* The data-URI functions alone: buffers are encoded, and the text returned  *)
(* or a text written by hand is decoded.                                     *)

MaxBufferLen == 3

ByteValues == { 0, 80, 137, 255 }
ByteBuffers == UNION { [1..n -> ByteValues] : n \in 0..MaxBufferLen }
ImageFormats == { "PNG", "JPEG" }

\* Texts no encoder wrote: with and without the marker, shorter and longer
\* than the marker, with and without padding.
HandWrittenTexts ==
    { <<>>,
      << "a", "b", "c" >>,
      << "Q", "U", "J", "D", "R", "E", "V", "G" >>,
      << "Q", "U", "J", "D", "R", "E", "V", "G", "R", "0", "h", "J" >>,
      << "b", "a", "s", "e", "6", "4", "," >>,
      << "b", "a", "s", "e", "6", "4", ",", "Q", "U", "J", "D" >>,
      << "d", "a", "t", "a", ":", "x", ";", "b", "a", "s", "e", "6", "4", ",", "Q", "U", "I", "=" >>,
      << "b", "a", "s", "e", "6", "4", ",", "Q", "Q" >>,
      << "d", "a", "t", "a", ":", ",", "Q", "U", "J", "D" >>,
      << "b", "a", "s", "e", "6", "4", ",", "!", "!" >>,
      << "a", "b", "a", "s", "e", "6", "4" >> }

\* The texts a decoding step is given.
TextsToDecode ==
    HandWrittenTexts
    \cup (IF call.op \in { "to_image_data_uri", "to_font_data_uri" }
          THEN { ret } ELSE {})

ToImageDataUri(format, bytes) ==
    /\ call' = [op |-> "to_image_data_uri", format |-> format, bytes |-> bytes]
    /\ ret' = to_image_data_uri(ImageEncodingFormat_as_ref(format), bytes)
    /\ UNCHANGED << borrows, image_vars, font_vars, file_vars >>

ToFontDataUri(bytes) ==
    /\ call' = [op |-> "to_font_data_uri", bytes |-> bytes]
    /\ ret' = to_font_data_uri(bytes)
    /\ UNCHANGED << borrows, image_vars, font_vars, file_vars >>

FromDataUri(data_uri) ==
    /\ call' = [op |-> "from_data_uri", data_uri |-> data_uri]
    /\ ret' = from_data_uri(data_uri)
    /\ UNCHANGED << borrows, image_vars, font_vars, file_vars >>

EncodedImageFromDataUri(data_uri) ==
    /\ call' = [op |-> "EncodedImage::from_data_uri", data_uri |-> data_uri]
    /\ ret' = EncodedImage_from_data_uri(data_uri)
    /\ UNCHANGED << borrows, image_vars, font_vars, file_vars >>

EncodedFontFromDataUri(data_uri) ==
    /\ call' = [op |-> "EncodedFont::from_data_uri", data_uri |-> data_uri]
    /\ ret' = EncodedFont_from_data_uri(data_uri)
    /\ UNCHANGED << borrows, image_vars, font_vars, file_vars >>

DataUriNext ==
    \/ \E format \in ImageFormats, bytes \in ByteBuffers :
          ToImageDataUri(format, bytes)
    \/ \E bytes \in ByteBuffers : ToFontDataUri(bytes)
    \/ \E data_uri \in TextsToDecode : FromDataUri(data_uri)
    \/ \E data_uri \in TextsToDecode : EncodedImageFromDataUri(data_uri)
    \/ \E data_uri \in TextsToDecode : EncodedFontFromDataUri(data_uri)

----------------------------------------------------------------------------
(* The events of adds alone: images and fonts added from raw bytes and from  *)
(* data URIs that are not the ones the keys APIs would write themselves.     *)

ImageUriGiven == << "d","a","t","a",":",";","b","a","s","e","6","4","," >> \o base64_encode(JpegLuma)
FontUriGiven == << "d","a","t","a",":","f","o","n","t","/","t","t","f",";","b","a","s","e","6","4","," >> \o base64_encode(FiraMonoTtf)

EncodedImageGiven == EncodedImage_from_data_uri(ImageUriGiven).val
EncodedFontGiven == EncodedFont_from_data_uri(FontUriGiven).val

EventsNext ==
    \/ \E name \in ImageNames : ImgAddRaw(name, PngRgba)
    \/ \E name \in ImageNames : ImgAddImage(name, EncodedImageGiven)
    \/ \E name \in FontNames : FontAddRaw(name, FreeSansTtf, 0)
    \/ \E name \in FontNames : FontAddFont(name, EncodedFontGiven, 0)

----------------------------------------------------------------------------
(* The update logs alone: adds that push events, and the takes *)

----------------------------------------------------------------------------
(* The shared handles.  SharedFiles, SharedImages and SharedFonts wrap their *)
(* cache in Rc<RefCell<..>>; they deref to the RefCell, so a holder of a     *)
(* clone can keep a borrow of the cache across calls on another clone.       *)

\* The RefCell's borrow flag: UNUSED, the number of shared borrows, or WRITING.
UNUSED == 0
WRITING == -1
\* The most shared borrows a caller holds at once.
MaxBorrows == 1

Handles == { "files", "images", "fonts" }

RefCell_borrow(flag) ==
    IF flag = WRITING THEN Panic ELSE Ok(flag + 1)

\* A faulty variant of borrow_mut: shared borrows are not noticed.
RefCell_borrow_mut_over_readers(flag) ==
    IF flag = WRITING THEN Panic ELSE Ok(WRITING)

RefCell_borrow_mut(flag) ==
    IF flag # UNUSED THEN Panic ELSE Ok(WRITING)

\* Dropping a Ref or a RefMut.
RefCell_release(flag) ==
    IF flag = WRITING THEN UNUSED ELSE flag - 1

\* Result::ok
Result_ok(result) ==
    IF IsOk(result) THEN Some(result.val) ELSE None

\* The call panicked before it reached the cache.
Panics(op, handle) ==
    /\ call' = [op |-> op, handle |-> handle]
    /\ ret' = Panic
    /\ UNCHANGED << borrows, image_vars, font_vars, file_vars >>

CallerBorrow(handle) ==
    /\ borrows[handle] < MaxBorrows
    /\ \E guard \in { RefCell_borrow(borrows[handle]) } :
          /\ call' = [op |-> "RefCell::borrow", handle |-> handle]
          /\ IF guard = Panic
             THEN ret' = Panic /\ UNCHANGED borrows
             ELSE ret' = Unit /\ borrows' = [borrows EXCEPT ![handle] = guard.val]
          /\ UNCHANGED << image_vars, font_vars, file_vars >>

CallerBorrowMut(handle) ==
    \E guard \in { RefCell_borrow_mut(borrows[handle]) } :
       /\ call' = [op |-> "RefCell::borrow_mut", handle |-> handle]
       /\ IF guard = Panic
          THEN ret' = Panic /\ UNCHANGED borrows
          ELSE ret' = Unit /\ borrows' = [borrows EXCEPT ![handle] = guard.val]
       /\ UNCHANGED << image_vars, font_vars, file_vars >>

CallerRelease(handle) ==
    /\ borrows[handle] # UNUSED
    /\ borrows' = [borrows EXCEPT ![handle] = RefCell_release(@)]
    /\ call' = [op |-> "drop", handle |-> handle]
    /\ ret' = Unit
    /\ UNCHANGED << image_vars, font_vars, file_vars >>

SharedFilesAddFile(src) ==
    IF RefCell_borrow_mut(borrows.files) = Panic
    THEN Panics("SharedFiles::add_file", "files")
    ELSE \E r \in { FileCache_add_file(file_cache, disk, src) } :
            /\ file_cache' = r.cache
            /\ disk_reads' = disk_reads + r.reads
            /\ call' = [op |-> "SharedFiles::add_file", handle |-> "files"]
            /\ ret' = Result_ok(r.result)
            /\ UNCHANGED << borrows, disk, image_vars, font_vars >>

\* unreachable!()
SharedFilesTakeResourceUpdates ==
    /\ call' = [op |-> "SharedFiles::take_resource_updates", handle |-> "files"]
    /\ ret' = Panic
    /\ UNCHANGED << borrows, image_vars, font_vars, file_vars >>

SharedImagesAddRaw(src, bytes) ==
    IF RefCell_borrow_mut(borrows.images) = Panic
    THEN Panics("SharedImages::add_raw", "images")
    ELSE \E r \in { ImageCache_add_raw(image_cache, ImageId_new(src), bytes) } :
            /\ image_cache' = r.cache
            /\ img_appended' = img_appended \o r.pushed
            /\ img_decodes' = r.decodes
            /\ call' = [op |-> "SharedImages::add_raw", handle |-> "images"]
            /\ ret' = Result_ok(r.result)
            /\ UNCHANGED << borrows, img_taken_at, font_vars, file_vars >>

SharedImagesAddImage(src, encoded) ==
    IF RefCell_borrow_mut(borrows.images) = Panic
    THEN Panics("SharedImages::add_image", "images")
    ELSE \E r \in { ImageCache_add_image(image_cache, ImageId_new(src), encoded) } :
            /\ image_cache' = r.cache
            /\ img_appended' = img_appended \o r.pushed
            /\ img_decodes' = r.decodes
            /\ call' = [op |-> "SharedImages::add_image", handle |-> "images"]
            /\ ret' = Result_ok(r.result)
            /\ UNCHANGED << borrows, img_taken_at, font_vars, file_vars >>

SharedImagesTakeResourceUpdates ==
    IF RefCell_borrow_mut(borrows.images) = Panic
    THEN Panics("SharedImages::take_resource_updates", "images")
    ELSE \E r \in { DefaultImageKeysAPI_take_resource_updates(image_cache.api) } :
            /\ image_cache' = [image_cache EXCEPT !.api = r.api]
            /\ img_taken_at' = Len(img_appended)
            /\ call' = [op |-> "SharedImages::take_resource_updates",
                        handle |-> "images"]
            /\ ret' = r.result
            /\ UNCHANGED << borrows, img_appended, img_decodes, font_vars, file_vars >>

\* What a call on the shared font cache does with the result r of the call
\* on the cache itself.
SharedFontsDoes(op, r, result) ==
    /\ WithinFontBounds(r.cache)
    /\ font_cache' = r.cache
    /\ font_appended' = font_appended \o r.pushed
    /\ call' = [op |-> op, handle |-> "fonts"]
    /\ ret' = result
    /\ UNCHANGED << borrows, font_taken_at, font_taken, engine_queries, image_vars, file_vars >>

SharedFontsAddRaw(font_name, bytes, face_index) ==
    IF RefCell_borrow_mut(borrows.fonts) = Panic
    THEN Panics("SharedFonts::add_raw", "fonts")
    ELSE \E r \in { FontCache_add_raw(font_cache, FontId_new(font_name), bytes,
                                      face_index) } :
            SharedFontsDoes("SharedFonts::add_raw", r, Result_ok(r.result))

SharedFontsAddFont(font_name, encoded, face_index) ==
    IF RefCell_borrow_mut(borrows.fonts) = Panic
    THEN Panics("SharedFonts::add_font", "fonts")
    ELSE \E r \in { FontCache_add_font(font_cache, FontId_new(font_name), encoded,
                                       face_index) } :
            SharedFontsDoes("SharedFonts::add_font", r, Result_ok(r.result))

SharedFontsGetFont(family_name) ==
    IF RefCell_borrow_mut(borrows.fonts) = Panic
    THEN Panics("SharedFonts::get_font", "fonts")
    ELSE \E r \in { FontCache_get_or_insert_font(font_cache,
                       FontInstanceId_from_family_str(
                           family_name, DEFAULT_FONT_SIZE, DEFAULT_FONT_DPI)) } :
            SharedFontsDoes("SharedFonts::get_font", r, r.result)

SharedFontsGetFontWithSize(family_name, size) ==
    IF RefCell_borrow_mut(borrows.fonts) = Panic
    THEN Panics("SharedFonts::get_font_with_size", "fonts")
    ELSE \E r \in { FontCache_get_or_insert_font(font_cache,
                       FontInstanceId_from_family_str(
                           family_name, size, DEFAULT_FONT_DPI)) } :
            SharedFontsDoes("SharedFonts::get_font_with_size", r, r.result)

SharedFontsGetFontWithSizeAndDpi(family_name, size, dpi) ==
    IF RefCell_borrow_mut(borrows.fonts) = Panic
    THEN Panics("SharedFonts::get_font_with_size_and_dpi", "fonts")
    ELSE \E r \in { FontCache_get_or_insert_font(font_cache,
                       FontInstanceId_from_family_str(family_name, size, dpi)) } :
            SharedFontsDoes("SharedFonts::get_font_with_size_and_dpi", r, r.result)

SharedFontsGetDefaultFontWithSize(size) ==
    IF RefCell_borrow_mut(borrows.fonts) = Panic
    THEN Panics("SharedFonts::get_default_font_with_size", "fonts")
    ELSE \E r \in { FontCache_get_default_font_with_size(font_cache, size) } :
            SharedFontsDoes("SharedFonts::get_default_font_with_size", r, r.result)

SharedFontsGetDefaultFontWithSizeAndDpi(size, dpi) ==
    IF RefCell_borrow_mut(borrows.fonts) = Panic
    THEN Panics("SharedFonts::get_default_font_with_size_and_dpi", "fonts")
    ELSE \E r \in { FontCache_get_default_font_with_size_and_dpi(font_cache, size,
                                                                 dpi) } :
            SharedFontsDoes("SharedFonts::get_default_font_with_size_and_dpi", r,
                            r.result)

SharedFontsTakeResourceUpdates ==
    IF RefCell_borrow_mut(borrows.fonts) = Panic
    THEN Panics("SharedFonts::take_resource_updates", "fonts")
    ELSE \E r \in { DefaultFontKeysAPI_take_resource_updates(font_cache.api) } :
            /\ font_cache' = [font_cache EXCEPT !.api = r.api]
            /\ font_taken_at' = Len(font_appended)
            /\ font_taken' = font_taken \o r.result.updates
            /\ call' = [op |-> "SharedFonts::take_resource_updates",
                        handle |-> "fonts"]
            /\ ret' = r.result
            /\ UNCHANGED << borrows, font_appended, engine_queries, image_vars,
                            file_vars >>

SharedNext ==
    \/ \E handle \in Handles : CallerBorrow(handle)
    \/ \E handle \in Handles : CallerBorrowMut(handle)
    \/ \E handle \in Handles : CallerRelease(handle)
    \/ DiskWrite(PathRootA, << 1 >>)
    \/ SharedFilesAddFile(PathRootA)
    \/ SharedFilesTakeResourceUpdates
    \/ SharedImagesAddRaw(TextQuantum, PngRgba)
    \/ SharedImagesAddImage(TextQuantum, EncodedImage_from_bytes(PngRgba).val)
    \/ SharedImagesTakeResourceUpdates
    \/ SharedFontsAddRaw(TextFreeSans, FreeSansTtf, 0)
    \/ SharedFontsAddFont(TextFreeSans, EncodedFont_from_bytes(FreeSansTtf).val, 0)
    \/ SharedFontsGetFont(TextFreeSans)
    \/ SharedFontsGetFontWithSize(TextFreeSans, 24)
    \/ SharedFontsGetFontWithSizeAndDpi(TextFreeSans, DEFAULT_FONT_SIZE, 96)
    \/ SharedFontsGetDefaultFontWithSize(24)
    \/ SharedFontsGetDefaultFontWithSizeAndDpi(DEFAULT_FONT_SIZE, 96)
    \/ SharedFontsTakeResourceUpdates

\* The three caches side by side: adds (also of other content under a name
\* that is taken), gets, takes, a shaping, and the files changing on disk.
EntriesNext ==
    \/ \E content \in FileContents : DiskWrite(PathRootA, content)
    \/ DiskRemove(PathRootA)
    \/ \E src \in { PathRootA, PathRelativeA } : FileAddFile(src)
    \/ FileGetFile(PathRootA)
    \/ \E bytes \in { PngRgba, PngRgb } : ImgAddRaw(TextQuantum, bytes)
    \/ ImgGetImage(TextQuantum)
    \/ ImgTakeResourceUpdates
    \/ \E name \in FontNames : FontAddRaw(name, FreeSansTtf, 0)
    \/ FontGetOrInsertFont(TextFreeSans, 24, DEFAULT_FONT_DPI)
    \/ FontShapeTextH(FontInstanceId_from_family_str(
                         TextFreeSans, DEFAULT_FONT_SIZE, DEFAULT_FONT_DPI), TextHi)
    \/ FontTakeResourceUpdates

UpdatesNext ==
    \/ \E name \in ImageNames, bytes \in { PngRgba, NotAnImage } :
          ImgAddRaw(name, bytes)
    \/ ImgTakeResourceUpdates
    \/ \E name \in FontNames, bytes \in { FreeSansTtf, FiraMonoTtf } :
          FontAddRaw(name, bytes, 0)
    \/ \E family_name \in FamilyNames :
          FontGetOrInsertFont(family_name, 24, DEFAULT_FONT_DPI)
    \/ FontTakeResourceUpdates

Next ==
    \/ ImageNext
    \/ FontNext
    \/ FontTakeResourceUpdates
    \/ FileNext
    \/ DataUriNext
    \/ ShapeNext
    \/ IdNext
    \/ MetricsNext
    \/ KeepNext
    \/ SharedNext
    \/ EntriesNext
    \/ FailNext

Init ==
    /\ image_cache = ImageCache_new
    /\ font_cache = FontCache_new
    /\ file_cache = FileCache_new
    /\ disk = [path \in CanonicalPaths |-> None]
    /\ img_appended = <<>>
    /\ img_taken_at = 0
    /\ img_decodes = 0
    /\ font_appended = <<>>
    /\ font_taken_at = 0
    /\ font_taken = <<>>
    /\ engine_queries = <<>>
    /\ disk_reads = 0
    /\ borrows = [files |-> UNUSED, images |-> UNUSED, fonts |-> UNUSED]
    /\ call = [op |-> "new"]
    /\ ret = Unit

Spec == Init /\ [][Next]_vars

ImageSpec == Init /\ [][ImageNext]_vars

FontSpec == Init /\ [][FontNext]_vars

SharedSpec == Init /\ [][SharedNext]_vars

EntriesSpec == Init /\ [][EntriesNext]_vars

FailSpec == Init /\ [][FailNext]_vars

FileSpec == Init /\ [][FileNext]_vars

UpdatesSpec == Init /\ [][UpdatesNext]_vars

DataUriSpec == Init /\ [][DataUriNext]_vars

EventsSpec == Init /\ [][EventsNext]_vars

ShapeSpec == Init /\ [][ShapeNext]_vars

IdSpec == Init /\ [][IdNext]_vars

MetricsSpec == Init /\ [][MetricsNext]_vars

KeepSpec == Init /\ [][KeepNext]_vars

----------------------------------------------------------------------------
(* Claims about the image cache, under ImageSpec *)

IsImageAdd(c) == c.op \in { "ImageCache::add_raw", "ImageCache::add_image" }

\* C1 as stated: an add on an identity already in the cache returns
\* ImageAlreadyAdded, whatever the bytes, and changes nothing.
C1_Original ==
    [][ (IsImageAdd(call') /\ call'.id \in DOMAIN image_cache.images)
        => /\ ret' = Err("ImageAlreadyAdded")
           /\ image_cache' = image_cache
           /\ img_appended' = img_appended ]_vars

\* C1 as amended: an add on an identity already in the cache fails and changes
\* nothing (stored image, key counter, update log).  The error is
\* ImageAlreadyAdded, except that add_raw with bytes of no recognisable format
\* returns the format error, since it wraps the bytes before the lookup.
C1_AddOnce ==
    [][ (IsImageAdd(call') /\ call'.id \in DOMAIN image_cache.images)
        => /\ ret' = IF /\ call'.op = "ImageCache::add_raw"
                        /\ IsErr(EncodedImage_guess_format(call'.bytes))
                     THEN Err("LibError")
                     ELSE Err("ImageAlreadyAdded")
           /\ image_cache'.images = image_cache.images
           /\ image_cache'.api.next_image_key = image_cache.api.next_image_key
           /\ image_cache'.api.up = image_cache.api.up
           /\ img_appended' = img_appended ]_vars

\* A second add_raw, with bytes that decode to other pixels than the stored
\* image's, has returned ImageAlreadyAdded.
C1_Witness ==
    /\ call.op = "ImageCache::add_raw"
    /\ ret = Err("ImageAlreadyAdded")
    /\ call.id \in DOMAIN image_cache.images
    /\ IsOk(DecodedImage_load_from_memory("PNG", call.bytes))
    /\ DecodedImage_load_from_memory("PNG", call.bytes).val.pixels
         # image_cache.images[call.id].pixels

EventKeys(events) == { events[i].key : i \in DOMAIN events }

\* C5: a successful image add allocates one fresh key and appends exactly one
\* AddImage event carrying it, a failed add appends nothing; so the number of
\* events ever appended equals the number of images in the cache.
C5_OneEventPerImage ==
    [][ /\ IsImageAdd(call') =>
            IF IsOk(ret')
            THEN \E e \in { img_appended'[Len(img_appended')] } :
                    /\ img_appended' = Append(img_appended, e)
                    /\ image_cache'.api.up.updates
                         = Append(image_cache.api.up.updates, e)
                    /\ e.type = "AddImage"
                    /\ e.key = image_cache'.images[call'.id].external_key
                    /\ e.key \notin EventKeys(img_appended)
                    /\ \A id \in DOMAIN image_cache.images :
                          image_cache.images[id].external_key # e.key
                    /\ DOMAIN image_cache'.images
                         = DOMAIN image_cache.images \cup { call'.id }
            ELSE /\ img_appended' = img_appended
                 /\ image_cache' = image_cache
        /\ Len(img_appended') = Cardinality(DOMAIN image_cache'.images) ]_vars

\* A second image has been added, after the first one's event was taken.
C5_Witness ==
    /\ IsImageAdd(call)
    /\ IsOk(ret)
    /\ Cardinality(DOMAIN image_cache.images) = 2
    /\ img_taken_at = 1

----------------------------------------------------------------------------
(* Claims about the font cache, under FontSpec *)

FontIdsWithInstance(cache) ==
    { cache.instances[i].font_id : i \in DOMAIN cache.instances }

EventsOfType(events, type) == { i \in DOMAIN events : events[i].type = type }

\* The step is an add_raw or add_font call for the font named name.
IsFontAddStep(name) ==
    \/ \E file \in FontFiles : FontAddRaw(name, file[1], file[2])
    \/ \E encoded \in EncodedFonts : FontAddFont(name, encoded, 0)

\* C2: once an add for a font identity has succeeded, every later add with that
\* identity returns FaceAlreadyAdded and leaves the faces, the instances, the
\* default font, both key counters and the update log unchanged.
C2_AddFontOnce ==
    [][ \A name \in FontNames :
          (/\ FontId_new(name) \in FontIdsWithInstance(font_cache)
           /\ IsFontAddStep(name))
          => /\ ret' = Err("FaceAlreadyAdded")
             /\ font_cache'.context.faces = font_cache.context.faces
             /\ font_cache'.instances = font_cache.instances
             /\ font_cache'.default_font = font_cache.default_font
             /\ font_cache'.api = font_cache.api
             /\ font_appended' = font_appended ]_vars

\* An add has returned FaceAlreadyAdded in a cache where every font identity
\* that has a face was added with success.
C2_Witness ==
    /\ call.op \in { "FontCache::add_raw", "FontCache::add_font" }
    /\ ret = Err("FaceAlreadyAdded")
    /\ DOMAIN font_cache.context.faces = FontIdsWithInstance(font_cache)

\* C6: a successful add_font appends exactly two events, AddFont with a fresh
\* font key k and right after it AddFontInstance with a fresh instance key, the
\* font key k and the default size; and it registers one instance, at the
\* default size and DPI, holding those two keys.
C6_AddFontEvents ==
    [][ \A name \in FontNames :
          (IsFontAddStep(name) /\ IsOk(ret'))
          => LET n == Len(font_appended)
                 e1 == font_appended'[n + 1]
                 e2 == font_appended'[n + 2]
                 id == FontInstanceId_from_family_hash(
                           CHOOSE h \in { i.family_name :
                                            i \in DOMAIN font_cache'.instances
                                                  \ DOMAIN font_cache.instances } : TRUE,
                           DEFAULT_FONT_SIZE, DEFAULT_FONT_DPI)
             IN  /\ font_appended' = font_appended \o << e1, e2 >>
                 /\ font_cache'.api.up.updates
                      = font_cache.api.up.updates \o << e1, e2 >>
                 /\ e1.type = "AddFont"
                 /\ \A i \in EventsOfType(font_appended, "AddFont") :
                       font_appended[i].key # e1.key
                 /\ e2.type = "AddFontInstance"
                 /\ e2.key = e1.key
                 /\ e2.size = DEFAULT_FONT_SIZE
                 /\ \A i \in EventsOfType(font_appended, "AddFontInstance") :
                       font_appended[i].instance_key # e2.instance_key
                 /\ DOMAIN font_cache'.instances
                      = DOMAIN font_cache.instances \cup { id }
                 /\ id \notin DOMAIN font_cache.instances
                 /\ font_cache'.instances[id]
                      = FontInstance_new(FontId_new(name), DEFAULT_FONT_SIZE,
                                         DEFAULT_FONT_DPI, e1.key, e2.instance_key)
                 /\ \A i \in DOMAIN font_cache.instances :
                       font_cache'.instances[i] = font_cache.instances[i] ]_vars

\* A second font has been added after a size variant of the first one, so that
\* its two keys differ.
C6_Witness ==
    /\ call.op \in { "FontCache::add_raw", "FontCache::add_font" }
    /\ IsOk(ret)
    /\ font_cache.api.next_font_key = 2
    /\ font_cache.api.next_font_instance_key = 3

\* C7: when get_or_insert_font has returned an instance, the same call made
\* again returns the same instance, with the same instance key, allocates no
\* key and appends no event.
C7_GetOrInsertTwice ==
    [][ \A family_name \in FamilyNames, variant \in FontVariants :
          (/\ FontGetOrInsertFont(family_name, variant[1], variant[2])
           /\ IsSome(ret'))
          => LET id == FontInstanceId_from_family_str(
                           family_name, variant[1], variant[2])
                 again == FontCache_get_or_insert_font(font_cache', id)
             IN  /\ again.result = ret'
                 /\ again.result.val.external_instance_key
                      = ret'.val.external_instance_key
                 /\ again.cache = font_cache'
                 /\ again.pushed = <<>> ]_vars

\* get_or_insert_font has just created and returned a variant that is not at
\* the default size.
C7_Witness ==
    /\ call.op = "FontCache::get_or_insert_font"
    /\ IsSome(ret)
    /\ ret.val.size # DEFAULT_FONT_SIZE
    /\ font_appended[Len(font_appended)].instance_key = ret.val.external_instance_key

\* C8: get_or_insert_font for a family with no instance at the default size and
\* DPI returns nothing, whatever the size and DPI asked for, and creates no
\* instance, allocates no key and appends no event.
C8_NeverAddedFamily ==
    [][ \A family_name \in FamilyNames, variant \in FontVariants :
          (/\ FontGetOrInsertFont(family_name, variant[1], variant[2])
           /\ FontInstanceId_from_family_str(
                  family_name, DEFAULT_FONT_SIZE, DEFAULT_FONT_DPI)
                \notin DOMAIN font_cache.instances)
          => /\ ret' = None
             /\ font_cache' = font_cache
             /\ font_appended' = font_appended ]_vars

\* get_or_insert_font has returned nothing in a cache that holds another font.
C8_Witness ==
    /\ call.op = "FontCache::get_or_insert_font"
    /\ ret = None
    /\ DOMAIN font_cache.instances # {}

FontKeysOf(cache, font_id) ==
    { cache.instances[i].external_key :
        i \in { j \in DOMAIN cache.instances : cache.instances[j].font_id = font_id } }

AddFontEventsFor(font_id) ==
    { i \in EventsOfType(font_appended, "AddFont") :
        font_appended[i].key \in FontKeysOf(font_cache, font_id) }

\* C9 as stated: every font identity that has a face in the font context has
\* had exactly one font key allocated (one AddFont event appended).
C9_Original ==
    \A font_id \in DOMAIN font_cache.context.faces :
        /\ Cardinality(FontKeysOf(font_cache, font_id)) = 1
        /\ Cardinality(AddFontEventsFor(font_id)) = 1

\* C9 as amended: exactly one font key (one AddFont event) has been allocated
\* for every font identity that has a registered instance, that is, whose
\* add_font succeeded; none for a font identity whose face was loaded by an
\* add_font that then failed; and no AddFont event belongs to no font.
C9_FontKeyPerRegisteredFont ==
    /\ FontIdsWithInstance(font_cache) \subseteq DOMAIN font_cache.context.faces
    /\ \A font_id \in DOMAIN font_cache.context.faces :
          LET n == IF font_id \in FontIdsWithInstance(font_cache) THEN 1 ELSE 0
          IN  /\ Cardinality(FontKeysOf(font_cache, font_id)) = n
              /\ Cardinality(AddFontEventsFor(font_id)) = n
    /\ Cardinality(EventsOfType(font_appended, "AddFont"))
         = Cardinality(FontIdsWithInstance(font_cache))
    /\ font_cache.api.next_font_key = Cardinality(FontIdsWithInstance(font_cache))

\* One font identity has a face and no instance, the other has an instance and
\* a variant of it made by get_or_insert_font.
C9_Witness ==
    /\ \E font_id \in DOMAIN font_cache.context.faces :
          font_id \notin FontIdsWithInstance(font_cache)
    /\ \E i \in DOMAIN font_cache.instances : i.size # DEFAULT_FONT_SIZE

FontKeyOfDefaultInstance(cache) ==
    \A i \in DOMAIN cache.instances :
       LET d == FontInstanceId_resize_dpi(i, DEFAULT_FONT_SIZE, DEFAULT_FONT_DPI)
       IN  /\ d \in DOMAIN cache.instances
           /\ cache.instances[i].external_key = cache.instances[d].external_key

\* C10: every font instance carries the font key of its family's instance at
\* the default size and DPI, and get_or_insert_font allocates instance keys
\* only: what it appends is one AddFontInstance event with that font key, or
\* nothing, and the font key counter stays.
C10_VariantsShareFontKey ==
    [][ /\ FontKeyOfDefaultInstance(font_cache')
        /\ \A family_name \in FamilyNames, variant \in FontVariants :
              FontGetOrInsertFont(family_name, variant[1], variant[2])
              => /\ font_cache'.api.next_font_key = font_cache.api.next_font_key
                 /\ \/ font_appended' = font_appended
                    \/ /\ Len(font_appended') = Len(font_appended) + 1
                       /\ SubSeq(font_appended', 1, Len(font_appended))
                            = font_appended
                       /\ font_appended'[Len(font_appended')].type
                            = "AddFontInstance"
                       /\ font_appended'[Len(font_appended')].key
                            = ret'.val.external_key ]_vars

\* get_or_insert_font has created a variant of the second font added.
C10_Witness ==
    /\ call.op = "FontCache::get_or_insert_font"
    /\ IsSome(ret)
    /\ ret.val.dpi # DEFAULT_FONT_DPI
    /\ ret.val.external_key = 1
    /\ font_appended[Len(font_appended)].instance_key = ret.val.external_instance_key

----------------------------------------------------------------------------
(* Claims about the file cache, under FileSpec *)

\* C3: add_file on a path whose canonical identity is already in the cache
\* returns FileAlreadyAdded without reading the file, and changes no entry; the
\* entry of an identity holds what the first add read and never changes
\* afterwards, whatever happens to the file, and get_file returns that entry.
C3_AddFileOnce ==
    [][ /\ \A src \in Paths :
              LET file_id == FileId_new(disk, src)
              IN  (IsOk(file_id) /\ file_id.val \in DOMAIN file_cache.files)
                  => /\ FileAddFile(src)
                        => /\ ret' = Err("FileAlreadyAdded")
                           /\ disk_reads' = disk_reads
                           /\ file_cache' = file_cache
                     /\ FileGetFile(src)
                        => ret' = Ok(file_cache.files[file_id.val])
        /\ \A src \in Paths :
              (FileAddFile(src) /\ IsOk(ret'))
              => /\ disk_reads' = disk_reads + 1
                 /\ FileId_new(disk, src).val \notin DOMAIN file_cache.files
                 /\ file_cache'.files[FileId_new(disk, src).val]
                      = disk[Resolve(src)].val
        /\ \A file_id \in DOMAIN file_cache.files :
              /\ file_id \in DOMAIN file_cache'.files
              /\ file_cache'.files[file_id] = file_cache.files[file_id] ]_vars

\* add_file has returned FileAlreadyAdded for a file whose content on disk is
\* no longer the buffer the cache holds for it.
C3_Witness ==
    /\ call.op = "FileCache::add_file"
    /\ ret = Err("FileAlreadyAdded")
    /\ disk[Resolve(call.src)] # None
    /\ file_cache.files[FnvHasher_finish(Resolve(call.src))]
         # disk[Resolve(call.src)].val
    /\ disk_reads = 1

----------------------------------------------------------------------------
(* Claims about the update logs, under UpdatesSpec *)

\* C4: take_resource_updates, of the image API and of the font API, returns
\* exactly the events appended since the previous take, in the order they were
\* appended, and leaves the log empty, so that a take made right after it
\* returns an empty log.
C4_TakeReturnsEventsSinceLastTake ==
    [][ /\ ImgTakeResourceUpdates
           => /\ ret'.updates
                   = SubSeq(img_appended, img_taken_at + 1, Len(img_appended))
              /\ image_cache'.api.up.updates = <<>>
              /\ DefaultImageKeysAPI_take_resource_updates(
                     image_cache'.api).result.updates = <<>>
        /\ FontTakeResourceUpdates
           => /\ ret'.updates
                   = SubSeq(font_appended, font_taken_at + 1, Len(font_appended))
              /\ font_cache'.api.up.updates = <<>>
              /\ DefaultFontKeysAPI_take_resource_updates(
                     font_cache'.api).result.updates = <<>> ]_vars

\* A take of the font log has returned some events but not all the events ever
\* appended, and the image log has been taken from in the same way.
C4_Witness ==
    /\ call.op = "DefaultFontKeysAPI::take_resource_updates"
    /\ ret.updates # <<>>
    /\ Len(ret.updates) < Len(font_appended)
    /\ img_taken_at > 0
    /\ img_taken_at < Len(img_appended)

----------------------------------------------------------------------------
(* Claims about the default font, under FontSpec *)

\* The instance id registered by the successful add of this step.
NewInstanceId ==
    CHOOSE i \in DOMAIN font_cache'.instances : i \notin DOMAIN font_cache.instances

IsSetDefaultFontStep ==
    \E family_name \in FamilyNames, size \in FontSizes :
        FontSetDefaultFont(family_name, size, DEFAULT_FONT_DPI)

\* C11 as stated: the first font successfully added becomes the default font;
\* no later add_font call, successful or failing, changes the selection; once
\* set, only set_default_font changes it.
C11_Original ==
    [][ /\ \A name \in FontNames :
              IsFontAddStep(name)
              => /\ (IsOk(ret') /\ DOMAIN font_cache.instances = {})
                    => font_cache'.default_font = Some(NewInstanceId)
                 /\ DOMAIN font_cache.instances # {}
                    => font_cache'.default_font = font_cache.default_font
        /\ (font_cache.default_font # None
            /\ font_cache'.default_font # font_cache.default_font)
           => IsSetDefaultFontStep ]_vars

\* C11 as amended: the first font successfully added becomes the default font
\* when no default font was selected by set_default_font before it; an add_font
\* call, successful or failing, never changes a selected default font, and a
\* failing one selects none; once set, only set_default_font changes it.
C11_FirstFontIsDefault ==
    [][ /\ \A name \in FontNames :
              IsFontAddStep(name)
              => /\ font_cache.default_font # None
                    => font_cache'.default_font = font_cache.default_font
                 /\ (/\ IsOk(ret')
                     /\ DOMAIN font_cache.instances = {}
                     /\ font_cache.default_font = None)
                    => font_cache'.default_font = Some(NewInstanceId)
                 /\ (~IsOk(ret') /\ font_cache.default_font = None)
                    => font_cache'.default_font = None
                 /\ DOMAIN font_cache.instances # {}
                    => font_cache.default_font # None
        /\ (font_cache.default_font # None
            /\ font_cache'.default_font # font_cache.default_font)
           => IsSetDefaultFontStep ]_vars

\* A second font has just been added and the default font is still the first.
C11_Witness ==
    /\ call.op \in { "FontCache::add_raw", "FontCache::add_font" }
    /\ IsOk(ret)
    /\ font_cache.api.next_font_key = 2
    /\ font_cache.default_font # None
    /\ font_cache.default_font.val \in DOMAIN font_cache.instances
    /\ font_cache.instances[font_cache.default_font.val].external_key = 0

\* The default font is selected and its family has an instance at the default
\* size and DPI, as after the add of a font.
DefaultFontAdded(cache) ==
    /\ cache.default_font # None
    /\ FontInstanceId_resize_dpi(
           cache.default_font.val, DEFAULT_FONT_SIZE, DEFAULT_FONT_DPI)
         \in DOMAIN cache.instances

\* C12: with a default font set by adding a font, get_default_font_with_size(S)
\* for a size S with no instance yet allocates exactly one instance key, appends
\* exactly one AddFontInstance event and returns the instance holding that key;
\* the same call made again returns the same instance and allocates nothing.
C12_DefaultFontWithSize ==
    [][ \A size \in FontSizes :
          (FontGetDefaultFontWithSize(size) /\ DefaultFontAdded(font_cache))
          => LET id == FontInstanceId_resize(font_cache.default_font.val, size)
                 e == font_appended'[Len(font_appended')]
                 again == FontCache_get_default_font_with_size(font_cache', size)
             IN  /\ IsSome(ret')
                 /\ id \notin DOMAIN font_cache.instances
                    => /\ font_cache'.api.next_font_instance_key
                            = font_cache.api.next_font_instance_key + 1
                       /\ font_cache'.api.next_font_key
                            = font_cache.api.next_font_key
                       /\ font_appended' = Append(font_appended, e)
                       /\ e.type = "AddFontInstance"
                       /\ e.instance_key = font_cache.api.next_font_instance_key
                       /\ e.size = size
                       /\ ret'.val.external_instance_key = e.instance_key
                       /\ ret'.val.size = size
                       /\ font_cache'.instances[id] = ret'.val
                 /\ again.result = ret'
                 /\ again.cache = font_cache'
                 /\ again.pushed = <<>> ]_vars

\* get_default_font_with_size has returned an instance of the default font at
\* another size than the default one, holding the last instance key allocated.
C12_Witness ==
    /\ call.op = "FontCache::get_default_font_with_size"
    /\ IsSome(ret)
    /\ ret.val.size # DEFAULT_FONT_SIZE
    /\ font_cache.default_font.val.size = DEFAULT_FONT_SIZE
    /\ font_appended[Len(font_appended)].instance_key = ret.val.external_instance_key
    /\ ret.val.external_instance_key + 1 = font_cache.api.next_font_instance_key

\* The instance returned by the step has the font identity and the font key of
\* the instance of the default font's family at the default size and DPI, and
\* the default-font selection is the one before the step.
SameFontAsDefault ==
    /\ font_cache'.default_font = font_cache.default_font
    /\ IsSome(ret')
       => LET d == FontInstanceId_resize_dpi(
                       font_cache.default_font.val,
                       DEFAULT_FONT_SIZE, DEFAULT_FONT_DPI)
          IN  /\ d \in DOMAIN font_cache.instances
              /\ ret'.val.font_id = font_cache.instances[d].font_id
              /\ ret'.val.external_key = font_cache.instances[d].external_key
              /\ font_cache.default_font.val \in DOMAIN font_cache.instances
                 => /\ ret'.val.font_id
                         = font_cache.instances[font_cache.default_font.val].font_id
                    /\ ret'.val.external_key
                         = font_cache.instances[font_cache.default_font.val].external_key

\* C13: for every size S and DPI D, the instance returned by
\* get_default_font_with_size(S) or get_default_font_with_size_and_dpi(S, D)
\* has the font identity and the font key of the default font's family, and
\* the call leaves the default-font selection unchanged.
C13_ResizedDefaultIsSameFont ==
    [][ /\ \A size \in FontSizes :
              FontGetDefaultFontWithSize(size) => SameFontAsDefault
        /\ \A variant \in FontVariants :
              FontGetDefaultFontWithSizeAndDpi(variant[1], variant[2])
              => SameFontAsDefault ]_vars

\* get_default_font_with_size_and_dpi has returned an instance at another DPI
\* of the second font added, which set_default_font made the default.
C13_Witness ==
    /\ call.op = "FontCache::get_default_font_with_size_and_dpi"
    /\ IsSome(ret)
    /\ ret.val.dpi # DEFAULT_FONT_DPI
    /\ ret.val.external_key = 1
    /\ font_cache.default_font.val.dpi = DEFAULT_FONT_DPI

----------------------------------------------------------------------------
(* Claims about data URIs, under DataUriSpec *)

\* C14: for every byte buffer b and every image format f, from_data_uri of
\* to_image_data_uri(f, b) returns exactly b, and from_data_uri of
\* to_font_data_uri(b) returns exactly b.
C14_DataUriRoundTrip ==
    [][ (/\ call.op \in { "to_image_data_uri", "to_font_data_uri" }
         /\ FromDataUri(ret))
        => ret' = Ok(call.bytes) ]_vars

\* The data URI of a one-byte buffer (two padding characters) or of a
\* three-byte buffer (no padding) has been decoded to that buffer.
C14_Witness ==
    /\ call.op = "from_data_uri"
    /\ IsOk(ret)
    /\ Len(ret.val) \in { 1, 3 }
    /\ ret.val[1] = 255
    /\ SubSeq(call.data_uri, 1, 5) = << "d","a","t","a",":" >>

\* The text after the first "base64," in the text, the whole text if there is none.
PayloadOf(text) ==
    LET found == str_find(text, TextBase64)
    IN  IF found = None THEN text
        ELSE SubSeq(text, found.val + 8, Len(text))

\* C15 as stated: from_data_uri decodes as payload everything after the marker
\* "base64,"; when the marker is absent, decoding starts at offset 0: the whole
\* text is decoded as the payload.
C15_Original ==
    [][ \A data_uri \in TextsToDecode :
          FromDataUri(data_uri) => ret' = base64_decode(PayloadOf(data_uri)) ]_vars

\* C16 as stated: for every input text, from_data_uri and the from_data_uri
\* constructors of EncodedImage and EncodedFont finish with a Result value and
\* never panic.
C16_Original ==
    call.op \in { "from_data_uri", "EncodedImage::from_data_uri",
                  "EncodedFont::from_data_uri" }
    => ret # Panic

----------------------------------------------------------------------------
(* Claims about what the events carry, under EventsSpec *)

\* The event the image add of this step appended, and the one the font add did.
NewImageEvent == img_appended'[Len(img_appended) + 1]
NewFontEvent == font_appended'[Len(font_appended) + 1]

\* C17: the AddImage or AddFont event of a resource added from a data URI
\* carries that data-URI text unchanged; the event of a resource added from raw
\* bytes carries the base64 data URI of those bytes, with the prefix
\* data:image/<format> for an image and data:application/x-font-woff for a
\* font.  An event holds a key and a data URI and no decoded data.
C17_EventPayload ==
    [][ \A name \in ImageNames \cup FontNames :
          /\ (ImgAddRaw(name, PngRgba) /\ IsOk(ret'))
             => /\ NewImageEvent.data_uri
                     = << "d","a","t","a",":","i","m","a","g","e","/","p","n","g",";","b","a","s","e","6","4","," >>
                       \o base64_encode(PngRgba)
                /\ from_data_uri(NewImageEvent.data_uri) = Ok(PngRgba)
                /\ DOMAIN NewImageEvent = { "type", "key", "data_uri" }
                /\ image_cache'.api.up.updates[Len(image_cache'.api.up.updates)]
                     = NewImageEvent
          /\ (ImgAddImage(name, EncodedImageGiven) /\ IsOk(ret'))
             => /\ NewImageEvent.data_uri = ImageUriGiven
                /\ DOMAIN NewImageEvent = { "type", "key", "data_uri" }
                /\ image_cache'.api.up.updates[Len(image_cache'.api.up.updates)]
                     = NewImageEvent
          /\ (FontAddRaw(name, FreeSansTtf, 0) /\ IsOk(ret'))
             => /\ NewFontEvent.data_uri
                     = << "d","a","t","a",":","a","p","p","l","i","c","a","t","i","o","n","/","x","-","f","o","n","t","-","w","o","f","f",";","b","a","s","e","6","4","," >>
                       \o base64_encode(FreeSansTtf)
                /\ from_data_uri(NewFontEvent.data_uri) = Ok(FreeSansTtf)
                /\ DOMAIN NewFontEvent = { "type", "key", "data_uri" }
                /\ font_cache'.api.up.updates[Len(font_cache'.api.up.updates) - 1]
                     = NewFontEvent
          /\ (FontAddFont(name, EncodedFontGiven, 0) /\ IsOk(ret'))
             => /\ NewFontEvent.data_uri = FontUriGiven
                /\ DOMAIN NewFontEvent = { "type", "key", "data_uri" }
                /\ font_cache'.api.up.updates[Len(font_cache'.api.up.updates) - 1]
                     = NewFontEvent ]_vars

\* An image and a font have been added from raw bytes and an image and a font
\* from a data URI, the font from the data URI last.
C17_Witness ==
    /\ call.op = "FontCache::add_font"
    /\ IsOk(ret)
    /\ Len(img_appended) = 2
    /\ \E i \in 1..2 : img_appended[i].data_uri = ImageUriGiven
    /\ Len(font_appended) = 4
    /\ font_appended[3].data_uri = FontUriGiven
    /\ font_appended[1].data_uri # FontUriGiven

----------------------------------------------------------------------------
(* Shaping *)

\* The store an instance holds for a text, in its horizontal or vertical cache.
ShapedH(cache, font_instance_id, text) ==
    MapGet(cache.instances[font_instance_id].shaped_text_h_cache,
           FontContext_generation_id(text))

ShapedV(cache, font_instance_id, text) ==
    MapGet(cache.instances[font_instance_id].shaped_text_v_cache,
           FontContext_generation_id(text))

\* C18: shaping the same text twice on the same font instance, in the same
\* direction, gives the same store both times (same generation id, same
\* contents), and the second call makes no query on the font engine: after a
\* successful shaping, shaping again returns what was returned, asks the
\* engine nothing and changes nothing; and a shaping step that finds the text
\* in the instance's cache returns the cached store without an engine query.
C18_ShapeTwice ==
    [][\A font_instance_id \in ShapeInstanceIds, text \in ShapeTexts :
          /\ FontShapeTextH(font_instance_id, text) =>
                /\ IsOk(ret') =>
                      LET again == FontCache_shape_text_h(font_cache', font_instance_id, text)
                      IN  /\ again.result = ret'
                          /\ again.result.val.generation_id = ret'.val.generation_id
                          /\ again.calls = <<>>
                          /\ again.cache = font_cache'
                /\ IsSome(ShapedH(font_cache, font_instance_id, text)) =>
                      /\ ret' = Ok(ShapedH(font_cache, font_instance_id, text).val)
                      /\ engine_queries' = <<>>
                      /\ font_cache' = font_cache
          /\ FontShapeTextV(font_instance_id, text) =>
                /\ IsOk(ret') =>
                      LET again == FontCache_shape_text_v(font_cache', font_instance_id, text)
                      IN  /\ again.result = ret'
                          /\ again.result.val.generation_id = ret'.val.generation_id
                          /\ again.calls = <<>>
                          /\ again.cache = font_cache'
                /\ IsSome(ShapedV(font_cache, font_instance_id, text)) =>
                      /\ ret' = Ok(ShapedV(font_cache, font_instance_id, text).val)
                      /\ engine_queries' = <<>>
                      /\ font_cache' = font_cache
      ]_vars

\* A text of several characters was shaped a second time: no engine query.
C18_Witness ==
    /\ call.op = "FontCache::shape_text_h"
    /\ IsOk(ret)
    /\ Len(ret.val.glyphs) >= 2
    /\ engine_queries = <<>>

RECURSIVE SumSeq(_)
SumSeq(s) == IF s = <<>> THEN 0 ELSE Head(s) + SumSeq(Tail(s))

\* What the font cache reports for each character of a text on an instance.
DimensionsOf(cache, font_instance_id, text) ==
    [i \in 1..Len(text) |->
        FontContext_get_glyph_dimensions(cache.context,
            cache.instances[font_instance_id], text[i]).result.val]

HoriAdvancesOf(cache, font_instance_id, text) ==
    [i \in 1..Len(text) |-> DimensionsOf(cache, font_instance_id, text)[i].hori_advance_64]

VertAdvancesOf(cache, font_instance_id, text) ==
    [i \in 1..Len(text) |-> DimensionsOf(cache, font_instance_id, text)[i].vert_advance_64]

SizeMetricsOf(cache, font_instance_id) ==
    FontContext_get_global_size_metrics(cache.context,
        cache.instances[font_instance_id]).result.val

\* C19: when shape_text_h does not find the text in the instance's cache and
\* succeeds, the store has one glyph per character, in text order: glyph i is
\* the glyph of character i, its x is the sum of the horizontal advances of
\* the characters before it and its y is the face ascender; the store's width
\* is the sum of all horizontal advances and its height is the face line
\* height.  The empty text gives zero glyphs and width 0.
C19_ShapeHorizontal ==
    [][\A font_instance_id \in ShapeInstanceIds, text \in ShapeTexts :
          (/\ FontShapeTextH(font_instance_id, text)
           /\ ShapedH(font_cache, font_instance_id, text) = None
           /\ IsOk(ret')) =>
             LET store == ret'.val
                 dims == DimensionsOf(font_cache, font_instance_id, text)
                 advances == HoriAdvancesOf(font_cache, font_instance_id, text)
                 metrics == SizeMetricsOf(font_cache, font_instance_id)
             IN  /\ Len(store.glyphs) = Len(text)
                 /\ \A i \in 1..Len(text) :
                       /\ store.glyphs[i].glyph_index = dims[i].glyph_index
                       /\ store.glyphs[i].x_64 = SumSeq(SubSeq(advances, 1, i - 1))
                       /\ store.glyphs[i].y_64 = metrics.ascender_64
                 /\ store.width_64 = SumSeq(advances)
                 /\ store.height_64 = metrics.height_64
                 /\ (text = <<>>) => (store.glyphs = <<>> /\ store.width_64 = 0)
      ]_vars

\* "i H" was shaped horizontally for the first time on an instance: three
\* glyphs of different advances.
C19_Witness ==
    /\ call.op = "FontCache::shape_text_h"
    /\ IsOk(ret)
    /\ engine_queries # <<>>
    /\ Len(ret.val.glyphs) = 3
    /\ ret.val.glyphs[3].x_64 > ret.val.glyphs[2].x_64
    /\ ret.val.glyphs[2].x_64 > 0

\* C20: when shape_text_v does not find the text in the instance's cache and
\* succeeds, the store has one glyph per character, in text order: glyph i is
\* the glyph of character i, its x is 0 and its y is the sum of the vertical
\* advances of the characters before it; the store's height is the sum of all
\* vertical advances and its width is the face max-advance.
C20_ShapeVertical ==
    [][\A font_instance_id \in ShapeInstanceIds, text \in ShapeTexts :
          (/\ FontShapeTextV(font_instance_id, text)
           /\ ShapedV(font_cache, font_instance_id, text) = None
           /\ IsOk(ret')) =>
             LET store == ret'.val
                 dims == DimensionsOf(font_cache, font_instance_id, text)
                 advances == VertAdvancesOf(font_cache, font_instance_id, text)
                 metrics == SizeMetricsOf(font_cache, font_instance_id)
             IN  /\ Len(store.glyphs) = Len(text)
                 /\ \A i \in 1..Len(text) :
                       /\ store.glyphs[i].glyph_index = dims[i].glyph_index
                       /\ store.glyphs[i].x_64 = 0
                       /\ store.glyphs[i].y_64 = SumSeq(SubSeq(advances, 1, i - 1))
                 /\ store.height_64 = SumSeq(advances)
                 /\ store.width_64 = metrics.max_advance_64
      ]_vars

\* "i H" was shaped vertically for the first time on an instance.
C20_Witness ==
    /\ call.op = "FontCache::shape_text_v"
    /\ IsOk(ret)
    /\ engine_queries # <<>>
    /\ Len(ret.val.glyphs) = 3
    /\ ret.val.glyphs[3].y_64 > ret.val.glyphs[2].y_64
    /\ ret.val.glyphs[2].y_64 > 0

----------------------------------------------------------------------------
(* Failed and repeated image adds, under ImageSpec *)

\* The encoded image an add call hands to the decoder, if the call gets that far.
EncodedOf(c) ==
    IF c.op = "ImageCache::add_raw" THEN EncodedImage_from_bytes(c.bytes)
    ELSE Ok(c.encoded)

\* The decoder rejects the image of an add call.
DecodeFails(c) ==
    /\ IsOk(EncodedOf(c))
    /\ IsErr(DecodedImage_from_encoded_image(EncodedOf(c).val))

DecodableBuffers ==
    { b \in ImageBuffers :
        /\ IsOk(EncodedImage_from_bytes(b))
        /\ IsOk(DecodedImage_from_encoded_image(EncodedImage_from_bytes(b).val)) }

\* C21: when the decoder fails during an image add on an absent identity, the
\* decoder's error is returned and nothing changes: no entry is stored, no key
\* is allocated, no event is appended.  The identity stays absent, so that an
\* add of decodable bytes under it then succeeds and stores the image; and
\* every add of a decodable image on an absent identity succeeds.
C21_FailedDecodeLeavesNothing ==
    [][ (IsImageAdd(call') /\ call'.id \notin DOMAIN image_cache.images) =>
          /\ DecodeFails(call') =>
                /\ ret' = DecodedImage_from_encoded_image(EncodedOf(call').val)
                /\ IsErr(ret')
                /\ image_cache' = image_cache
                /\ img_appended' = img_appended
                /\ call'.id \notin DOMAIN image_cache'.images
                /\ \A b \in DecodableBuffers :
                      LET later == ImageCache_add_raw(image_cache', call'.id, b)
                      IN  /\ later.result = Ok(Unit)
                          /\ call'.id \in DOMAIN later.cache.images
          /\ (IsOk(EncodedOf(call')) /\ ~DecodeFails(call')) =>
                /\ ret' = Ok(Unit)
                /\ call'.id \in DOMAIN image_cache'.images
      ]_vars

\* An add of a corrupt PNG has failed in the decoder, after another image was
\* added and its event left in the log.
C21_Witness ==
    /\ IsImageAdd(call)
    /\ DecodeFails(call)
    /\ IsErr(ret)
    /\ img_decodes = 1
    /\ call.id \notin DOMAIN image_cache.images
    /\ Len(image_cache.api.up.updates) = 1

\* C22: an image add on an identity already in the cache fails before the
\* image is decoded: the pixel decoder does not run and the keys API is not
\* called (no key allocated, no event appended, the API unchanged).
C22_DuplicateSkipsDecode ==
    [][ (IsImageAdd(call') /\ call'.id \in DOMAIN image_cache.images) =>
          /\ IsErr(ret')
          /\ img_decodes' = 0
          /\ image_cache'.api = image_cache.api
          /\ img_appended' = img_appended
      ]_vars

\* An add of a decodable image on an identity already in the cache has failed.
C22_Witness ==
    /\ IsImageAdd(call)
    /\ ret = Err("ImageAlreadyAdded")
    /\ call.id \in DOMAIN image_cache.images
    /\ IsOk(EncodedOf(call))
    /\ IsOk(DecodedImage_from_encoded_image(EncodedOf(call).val))
    /\ img_decodes = 0

----------------------------------------------------------------------------
(* Lookups and path aliases in the file cache, under FileSpec *)

\* The path was added: the cache holds a buffer under its canonical form.
WasAdded(src) == FnvHasher_finish(Resolve(src)) \in DOMAIN file_cache.files

BufferOf(src) == file_cache.files[FnvHasher_finish(Resolve(src))]

\* C23 as stated: get_file changes nothing, and returns the stored buffer for
\* an added path, FileNotFound for a resolvable path that was never added, and
\* an I/O error for a path that cannot be canonicalized.
C23_Original ==
    [][\A src \in Paths :
          FileGetFile(src) =>
             /\ file_cache' = file_cache
             /\ ret' = IF WasAdded(src) THEN Ok(BufferOf(src))
                       ELSE IF IsOk(fs_canonicalize(disk, src))
                       THEN Err("FileNotFound")
                       ELSE Err("IOError")
      ]_vars

\* C23 as amended: get_file changes nothing; for a path that cannot be
\* canonicalized it returns the I/O error, also when the path was added
\* before its file went away; for a path that can, it returns the stored
\* buffer if the path was added and FileNotFound if not.
C23_GetFileReadsOnly ==
    [][\A src \in Paths :
          FileGetFile(src) =>
             /\ file_cache' = file_cache
             /\ ret' = IF IsErr(fs_canonicalize(disk, src)) THEN Err("IOError")
                       ELSE IF WasAdded(src) THEN Ok(BufferOf(src))
                       ELSE Err("FileNotFound")
      ]_vars

\* get_file has returned the I/O error for a path whose buffer the cache holds.
C23_Witness ==
    /\ call.op = "FileCache::get_file"
    /\ ret = Err("IOError")
    /\ WasAdded(call.src)

\* Both paths canonicalize on the disk as it is, to the same absolute path.
SameCanonical(p, q) ==
    /\ IsOk(fs_canonicalize(disk, p))
    /\ IsOk(fs_canonicalize(disk, q))
    /\ fs_canonicalize(disk, p).val = fs_canonicalize(disk, q).val

\* Both paths canonicalize, to different absolute paths.
DistinctCanonical(p, q) ==
    /\ IsOk(fs_canonicalize(disk, p))
    /\ IsOk(fs_canonicalize(disk, q))
    /\ fs_canonicalize(disk, p).val # fs_canonicalize(disk, q).val

\* C24: two paths that canonicalize to the same absolute path have the same
\* file identity: once one has been added, add_file on the other fails with
\* FileAlreadyAdded and get_file returns the same buffer for both.  Paths
\* with distinct canonical forms have distinct identities and are cached
\* independently: adding one succeeds whether or not the other is cached, and
\* leaves the other's entry, or absence, as it was.
C24_CanonicalIdentity ==
    [][\A p \in Paths, q \in Paths :
          /\ SameCanonical(p, q) =>
                /\ FileId_new(disk, p) = FileId_new(disk, q)
                /\ FileCache_get_file(file_cache, disk, p).result
                     = FileCache_get_file(file_cache, disk, q).result
                /\ (FileAddFile(p) /\ IsOk(ret')) =>
                      /\ FileCache_add_file(file_cache', disk, q).result
                           = Err("FileAlreadyAdded")
                      /\ IsOk(FileCache_get_file(file_cache', disk, q).result)
                      /\ FileCache_get_file(file_cache', disk, q).result
                           = FileCache_get_file(file_cache', disk, p).result
                /\ (FileAddFile(q) /\ IsOk(FileCache_get_file(file_cache, disk, p).result)) =>
                      ret' = Err("FileAlreadyAdded")
          /\ DistinctCanonical(p, q) =>
                /\ FileId_new(disk, p) # FileId_new(disk, q)
                /\ FileAddFile(p) =>
                      /\ IsOk(ret') <=> IsErr(FileCache_get_file(file_cache, disk, p).result)
                      /\ FileCache_get_file(file_cache', disk, q).result
                           = FileCache_get_file(file_cache, disk, q).result
      ]_vars

\* add_file on "a" has failed with FileAlreadyAdded while the cache holds the
\* file under "/r/a" only, or the other way round.
C24_Witness ==
    /\ call.op = "FileCache::add_file"
    /\ ret = Err("FileAlreadyAdded")
    /\ Cardinality(DOMAIN file_cache.files) = 1
    /\ disk_reads = 1
    /\ call.src = PathRelativeA

----------------------------------------------------------------------------
(* Font instance identities, under IdSpec *)

AllFontInstanceIds ==
    { FontInstanceId_from_family_str(n, s, d) :
        n \in FamilyNames, s \in IdSizes, d \in IdDpis }

\* C25: two font instance ids are equal iff they have the same family hash,
\* the same size and the same DPI; resize keeps the family hash and the DPI,
\* resize_dpi keeps the family hash; so an id built from a family name and
\* then resized to a size and a DPI is the id built from that name, size and
\* DPI.
C25_InstanceIdentity ==
    [][ /\ \A b \in AllFontInstanceIds :
              FontInstanceId_eq(ret', b) <=>
                 /\ ret'.family_name = b.family_name
                 /\ ret'.size = b.size
                 /\ ret'.dpi = b.dpi
        /\ call'.op = "FontInstanceId::resize" =>
              /\ ret'.family_name = ret.family_name
              /\ ret'.dpi = ret.dpi
              /\ ret'.size = call'.size
              /\ FontInstanceId_eq(ret',
                    FontInstanceId_from_family_str(call'.family_name, call'.size, ret.dpi))
        /\ call'.op = "FontInstanceId::resize_dpi" =>
              /\ ret'.family_name = ret.family_name
              /\ FontInstanceId_eq(ret',
                    FontInstanceId_from_family_str(call'.family_name,
                                                   call'.size, call'.dpi))
      ]_vars

\* An id was resized to another size and another DPI than it had.
C25_Witness ==
    /\ call.op = "FontInstanceId::resize_dpi"
    /\ call.self.size # call.size
    /\ call.self.dpi # call.dpi
    /\ ret = FontInstanceId_from_family_str(call.family_name, call.size, call.dpi)

----------------------------------------------------------------------------
(* Glyph stores and their generation ids, under ShapeSpec *)

\* The glyph stores shaping has produced so far: those the instances hold.
StoresOf(cache) ==
    UNION { { cache.instances[id].shaped_text_h_cache[g] :
                g \in DOMAIN cache.instances[id].shaped_text_h_cache }
            \cup
            { cache.instances[id].shaped_text_v_cache[g] :
                g \in DOMAIN cache.instances[id].shaped_text_v_cache }
          : id \in DOMAIN cache.instances }

\* C26 as stated: any two glyph stores produced by shape_text_h or
\* shape_text_v, on any instances and in any direction, that compare equal
\* (have equal generation ids) have the same glyphs, width and height.
C26_Original ==
    \A a \in StoresOf(font_cache), b \in StoresOf(font_cache) :
       GlyphStore_eq(a, b) =>
          /\ a.glyphs = b.glyphs
          /\ a.width_64 = b.width_64
          /\ a.height_64 = b.height_64

----------------------------------------------------------------------------
(* Metrics of instances that share a face, under MetricsSpec *)

\* The font context with every face as it was when loaded: no size set yet.
PristineContext(context) ==
    [faces |-> [f \in DOMAIN context.faces |->
                  FontFace_new(context.faces[f].bytes, context.faces[f].face_index).val]]

\* The nominal size an instance asks of its face.
NominalSizeOf(instance) ==
    [char_size |-> instance.size * 64, resolution |-> instance.dpi]

\* C27: whatever calls came before on instances of other sizes or DPIs that
\* share the face, get_glyph_dimensions, get_global_size_metrics and a
\* shaping that computes its store read the metrics with the face's nominal
\* size set to the calling instance's size * 64 at its DPI, and return what
\* they return on a face no call has touched: the result depends only on the
\* font, the size, the DPI and the characters.
C27_MetricsIgnoreHistory ==
    [][\A font_instance_id \in MetricsInstanceIds :
          LET instance == font_cache.instances[font_instance_id]
              pristine == PristineContext(font_cache.context)
              face == font_cache'.context.faces[instance.font_id]
          IN  /\ \A c \in MetricsChars :
                    FontGetGlyphDimensions(font_instance_id, c) =>
                       /\ IsOk(ret')
                       /\ ret' = FontContext_get_glyph_dimensions(pristine, instance, c).result
                       /\ face.raw.size = NominalSizeOf(instance)
                       /\ face.raw.glyph.char_size = instance.size * 64
                       /\ face.raw.glyph.resolution = instance.dpi
              /\ FontGetGlobalSizeMetrics(font_instance_id) =>
                    /\ IsOk(ret')
                    /\ ret' = FontContext_get_global_size_metrics(pristine, instance).result
                    /\ face.raw.size = NominalSizeOf(instance)
              /\ (/\ FontShapeTextH(font_instance_id, TextHi)
                  /\ ShapedH(font_cache, font_instance_id, TextHi) = None) =>
                    /\ IsOk(ret')
                    /\ ret' = FontContext_shape_text_h(pristine, instance, TextHi).result
                    /\ face.raw.size = NominalSizeOf(instance)
      ]_vars

\* get_glyph_dimensions has answered for an instance of one size after a text
\* was shaped on an instance of another size or DPI of the same face.
C27_Witness ==
    /\ call.op = "FontCache::get_glyph_dimensions"
    /\ IsOk(ret)
    /\ \E a \in DOMAIN font_cache.instances :
          /\ font_cache.instances[a].shaped_text_h_cache # EmptyMap
          /\ NominalSizeOf(font_cache.instances[a])
               # font_cache.context.faces[font_cache.instances[a].font_id].raw.size

----------------------------------------------------------------------------
(* The shaping caches among the other calls, under KeepSpec *)

\* Every store of map old is in map new, under the same generation id.
KeepsStores(old, new) ==
    \A g \in DOMAIN old : g \in DOMAIN new /\ new[g] = old[g]

\* C28: a store, once in the shaping cache of an instance for a direction, is
\* never removed or replaced: every call (adding a font, asking for a font
\* instance, taking the resource updates, shaping any text in any direction
\* on any instance) leaves each instance in the cache with every store it
\* held; so shaping a text that was shaped before on that instance and
\* direction returns the stored glyph store without a query on the engine.
C28_ShapedTextsStay ==
    [][ /\ \A id \in DOMAIN font_cache.instances :
              /\ id \in DOMAIN font_cache'.instances
              /\ KeepsStores(font_cache.instances[id].shaped_text_h_cache,
                             font_cache'.instances[id].shaped_text_h_cache)
              /\ KeepsStores(font_cache.instances[id].shaped_text_v_cache,
                             font_cache'.instances[id].shaped_text_v_cache)
        /\ \A font_instance_id \in ShapeInstanceIds, text \in ShapeTexts :
              /\ (/\ call'.op = "FontCache::shape_text_h"
                  /\ font_instance_id \in DOMAIN font_cache.instances
                  /\ IsSome(ShapedH(font_cache, font_instance_id, text))
                  /\ FontShapeTextH(font_instance_id, text)) =>
                    /\ ret' = Ok(ShapedH(font_cache, font_instance_id, text).val)
                    /\ engine_queries' = <<>>
              /\ (/\ call'.op = "FontCache::shape_text_v"
                  /\ font_instance_id \in DOMAIN font_cache.instances
                  /\ IsSome(ShapedV(font_cache, font_instance_id, text))
                  /\ FontShapeTextV(font_instance_id, text)) =>
                    /\ ret' = Ok(ShapedV(font_cache, font_instance_id, text).val)
                    /\ engine_queries' = <<>>
      ]_vars

\* A text was shaped again, without an engine query, on an instance that
\* holds another shaped text as well, after a second font was added, a second
\* instance was asked for and the resource updates were taken.
C28_Witness ==
    /\ call.op = "FontCache::shape_text_h"
    /\ IsOk(ret)
    /\ engine_queries = <<>>
    /\ Len(ret.val.glyphs) = 2
    /\ \E id \in DOMAIN font_cache.instances :
          Cardinality(DOMAIN font_cache.instances[id].shaped_text_h_cache) = 2
    /\ Cardinality(DOMAIN font_cache.context.faces) = 2
    /\ Cardinality(DOMAIN font_cache.instances) >= 2
    /\ font_cache.api.up.updates = <<>>

----------------------------------------------------------------------------
(* The name a font instance is registered under *)

\* The family name the engine reports for the face of a font identity.
EngineFamilyName(cache, font_id) ==
    FontContext_get_family_name(cache.context, font_id)

\* Some face in the font context reports this family name.
FamilyRegistered(cache, family_name) ==
    \E font_id \in DOMAIN cache.context.faces :
        EngineFamilyName(cache, font_id) = Ok(family_name)

DefaultInstanceIdOf(family_name) ==
    FontInstanceId_from_family_str(family_name, DEFAULT_FONT_SIZE, DEFAULT_FONT_DPI)

\* C29: font instances are registered and resolved by the family name the
\* engine reports for the face, not by the font name the caller gave.  After
\* a successful add under a font name, the default-size instance of the
\* engine's family name exists and belongs to that font, and when the font
\* name differs from the family name no instance appears under the font name.
\* get_or_insert_font with a family name returns an instance exactly when a
\* face reporting that family name was added, and that instance's font
\* reports the family name asked for; any other name returns nothing.
C29_RegisteredByFamilyName ==
    [][ /\ \A name \in FontNames :
              (/\ call'.op \in { "FontCache::add_raw", "FontCache::add_font" }
               /\ IsOk(ret')
               /\ IsFontAddStep(name)) =>
                 \E family \in { EngineFamilyName(font_cache', FontId_new(name)) } :
                    /\ IsOk(family)
                    /\ DefaultInstanceIdOf(family.val) \in DOMAIN font_cache'.instances
                    /\ font_cache'.instances[DefaultInstanceIdOf(family.val)].font_id
                          = FontId_new(name)
                    /\ (family.val # name /\ ~FamilyRegistered(font_cache', name)) =>
                          DefaultInstanceIdOf(name) \notin DOMAIN font_cache'.instances
        /\ \A family_name \in FamilyNames, variant \in FontVariants :
              (/\ call'.op = "FontCache::get_or_insert_font"
               /\ FontGetOrInsertFont(family_name, variant[1], variant[2])) =>
                 /\ IsSome(ret') <=> FamilyRegistered(font_cache, family_name)
                 /\ IsSome(ret') =>
                       EngineFamilyName(font_cache, ret'.val.font_id) = Ok(family_name)
      ]_vars

\* The font added under the name "FiraMono" reports the family "Fira Mono":
\* asking for "Fira Mono" returned its instance, and nothing is registered
\* under "FiraMono".
C29_Witness ==
    /\ call.op = "FontCache::get_or_insert_font"
    /\ IsSome(ret)
    /\ ret.val.font_id = FontId_new(TextFiraMono)
    /\ EngineFamilyName(font_cache, FontId_new(TextFiraMono)) = Ok(TextFiraSpaceMono)
    /\ DefaultInstanceIdOf(TextFiraMono) \notin DOMAIN font_cache.instances
    /\ DefaultInstanceIdOf(TextFiraSpaceMono) \in DOMAIN font_cache.instances


\* C30: add_font registers the face before it looks at the instance
\* dictionary.  When an add under a font identity that was not in the font
\* context is refused with FontInstanceAlreadyAdded (the family name the
\* engine reports is registered already), the face of the new identity is in
\* the font context afterwards, reporting that family name, while the keys
\* API is as it was (no key allocated, no update appended) and the instance
\* dictionary is as it was (the existing instance is not replaced).
C30_FaceRegisteredBeforeRefusal ==
    [][ \A name \in FontNames :
           (/\ call'.op \in { "FontCache::add_raw", "FontCache::add_font" }
            /\ ret' = Err("FontInstanceAlreadyAdded")
            /\ IsFontAddStep(name)) =>
              /\ FontId_new(name) \notin DOMAIN font_cache.context.faces
              /\ FontId_new(name) \in DOMAIN font_cache'.context.faces
              /\ \E family \in { EngineFamilyName(font_cache', FontId_new(name)) } :
                    /\ IsOk(family)
                    /\ DefaultInstanceIdOf(family.val) \in DOMAIN font_cache.instances
                    /\ font_cache.instances[DefaultInstanceIdOf(family.val)].font_id
                          # FontId_new(name)
              /\ font_cache'.api = font_cache.api
              /\ font_appended' = font_appended
              /\ font_cache'.instances = font_cache.instances
      ]_vars

\* The bytes of FreeSans were added under the name "FiraMono" after FreeSans
\* was registered: the add was refused, and the face of "FiraMono" is there.
C30_Witness ==
    /\ call.op \in { "FontCache::add_raw", "FontCache::add_font" }
    /\ ret = Err("FontInstanceAlreadyAdded")
    /\ EngineFamilyName(font_cache, FontId_new(TextFiraMono)) = Ok(TextFreeSans)
    /\ font_cache.instances[DefaultInstanceIdOf(TextFreeSans)].font_id
          = FontId_new(TextFreeSans)
    /\ Cardinality(DOMAIN font_cache.context.faces) = 2
    /\ Len(font_appended) = 2

----------------------------------------------------------------------------
(* Adds the engine rejects *)

\* The buffers the engine accepts at face index 0, with a family name.
NamedFontBuffers == { FreeSansTtf, FiraMonoTtf }

----------------------------------------------------------------------------
(* Calls through a shared handle while the cache is borrowed *)

\* The calls of the shared handles that borrow the cache mutably.
SharedMutatingOps ==
    { "SharedFiles::add_file", "SharedFiles::take_resource_updates",
      "SharedImages::add_raw", "SharedImages::add_image",
      "SharedImages::take_resource_updates",
      "SharedFonts::add_raw", "SharedFonts::add_font", "SharedFonts::get_font",
      "SharedFonts::get_font_with_size", "SharedFonts::get_font_with_size_and_dpi",
      "SharedFonts::get_default_font_with_size",
      "SharedFonts::get_default_font_with_size_and_dpi",
      "SharedFonts::take_resource_updates" }

\* C32: a mutating call through a shared handle (an add, a
\* take_resource_updates, a get_font*, a get_default_font_with_size*) made
\* while another borrow of the same cache is active panics, and the caches
\* (dictionaries, key counters, update logs), the events appended, the disk
\* reads and the borrow flags are exactly as they were before the call.
C32_BorrowedCachePanics ==
    [][ (/\ call'.op \in SharedMutatingOps
         /\ borrows[call'.handle] # UNUSED) =>
           /\ ret' = Panic
           /\ file_cache' = file_cache
           /\ image_cache' = image_cache
           /\ font_cache' = font_cache
           /\ img_appended' = img_appended
           /\ font_appended' = font_appended
           /\ disk_reads' = disk_reads
           /\ borrows' = borrows
      ]_vars

\* A call on the shared font cache panicked while a caller held a shared
\* borrow of it; the cache holds a font, two instances and their events.
C32_Witness ==
    /\ call.op \in { "SharedFonts::add_raw", "SharedFonts::get_font_with_size" }
    /\ ret = Panic
    /\ borrows.fonts = 1
    /\ Cardinality(DOMAIN font_cache.instances) = 2
    /\ Len(font_cache.api.up.updates) = 3

----------------------------------------------------------------------------
(* Entries for the lifetime of the cache, under EntriesSpec *)

\* What makes a face the same object: its bytes, its index and its family.
\* (The engine's size object and glyph slot inside it change with every query.)
FaceObject(face) ==
    [bytes |-> face.bytes, face_index |-> face.face_index,
     family_name |-> face.raw.family_name]

\* What makes a font instance the same object: everything but the shaped
\* texts it collects.
InstanceObject(instance) ==
    [font_id |-> instance.font_id, size |-> instance.size, dpi |-> instance.dpi,
     external_key |-> instance.external_key,
     external_instance_key |-> instance.external_instance_key]

\* C33: no operation removes or replaces an entry of the file, image, face or
\* font-instance dictionaries: on every step each entry is still there, the
\* same object; and a get that returned an object (get_file for a path,
\* get_image for a name, get_or_insert_font for an instance id) returns that
\* same object after the step, for get_file as long as the path still
\* resolves to the identity it resolved to.
C33_EntriesStay ==
    [][ /\ KeepsStores(file_cache.files, file_cache'.files)
        /\ KeepsStores(image_cache.images, image_cache'.images)
        /\ \A font_id \in DOMAIN font_cache.context.faces :
              /\ font_id \in DOMAIN font_cache'.context.faces
              /\ FaceObject(font_cache'.context.faces[font_id])
                    = FaceObject(font_cache.context.faces[font_id])
        /\ \A id \in DOMAIN font_cache.instances :
              /\ id \in DOMAIN font_cache'.instances
              /\ InstanceObject(font_cache'.instances[id])
                    = InstanceObject(font_cache.instances[id])
              /\ InstanceObject(FontCache_get_or_insert_font(font_cache', id).result.val)
                    = InstanceObject(font_cache.instances[id])
        /\ \A src \in Paths :
              (/\ IsOk(FileCache_get_file(file_cache, disk, src).result)
               /\ FileId_new(disk', src) = FileId_new(disk, src)) =>
                 FileCache_get_file(file_cache', disk', src).result
                    = FileCache_get_file(file_cache, disk, src).result
        /\ \A name \in ImageNames :
              IsSome(ImageCache_get_image(image_cache, name)) =>
                 ImageCache_get_image(image_cache', name)
                    = ImageCache_get_image(image_cache, name)
      ]_vars

\* get_file returned the buffer first added for a path whose file has been
\* rewritten since, while the image cache and the font cache hold entries too
\* (the font cache two faces, two instances and a shaped text).
C33_Witness ==
    /\ call.op = "FileCache::get_file"
    /\ IsOk(ret)
    /\ disk[PathRootA] # None
    /\ disk[PathRootA].val # ret.val
    /\ IsSome(ImageCache_get_image(image_cache, TextQuantum))
    /\ Cardinality(DOMAIN font_cache.context.faces) = 2
    /\ Cardinality(DOMAIN font_cache.instances) = 2
    /\ \E id \in DOMAIN font_cache.instances :
          font_cache.instances[id].shaped_text_h_cache # EmptyMap

----------------------------------------------------------------------------
(* The default-font selection *)

\* C34: set_default_font changes only the default-font selection: for any
\* (family, size, dpi), also of a family that was never added, the selection
\* becomes that identity while the instance dictionary, the font context, the
\* key counters and the update log stay as they were and nothing is appended.
\* get_default_font changes nothing and returns the instance registered
\* under exactly the selected (family, size, dpi), or nothing when there is
\* no selection or no instance is registered under it.
C34_DefaultFontBookkeeping ==
    [][ /\ \A family_name \in FamilyNames, size \in FontSizes :
              (/\ call'.op = "FontCache::set_default_font"
               /\ FontSetDefaultFont(family_name, size, DEFAULT_FONT_DPI)) =>
                 /\ font_cache'.default_font
                       = Some(FontInstanceId_from_family_str(
                                  family_name, size, DEFAULT_FONT_DPI))
                 /\ font_cache'.instances = font_cache.instances
                 /\ font_cache'.context = font_cache.context
                 /\ font_cache'.api = font_cache.api
                 /\ font_appended' = font_appended
        /\ (call'.op = "FontCache::get_default_font" /\ FontGetDefaultFont) =>
              /\ font_cache' = font_cache
              /\ font_appended' = font_appended
              /\ IsSome(ret') <=>
                    /\ IsSome(font_cache.default_font)
                    /\ font_cache.default_font.val \in DOMAIN font_cache.instances
              /\ IsSome(ret') =>
                    /\ ret'.val = font_cache.instances[font_cache.default_font.val]
                    /\ ret'.val.size = font_cache.default_font.val.size
                    /\ ret'.val.dpi = font_cache.default_font.val.dpi
                    /\ \E family \in { EngineFamilyName(font_cache, ret'.val.font_id) } :
                          /\ IsOk(family)
                          /\ FnvHasher_finish(family.val)
                                = font_cache.default_font.val.family_name
              /\ ~IsSome(ret') => ret' = None
      ]_vars

\* FreeSans is registered at the default size only and the selection is
\* FreeSans at size 24: get_default_font returned nothing and created nothing.
C34_Witness ==
    /\ call.op = "FontCache::get_default_font"
    /\ ret = None
    /\ font_cache.default_font
          = Some(FontInstanceId_from_family_str(TextFreeSans, 24, DEFAULT_FONT_DPI))
    /\ DOMAIN font_cache.instances = { DefaultInstanceIdOf(TextFreeSans) }
    /\ Len(font_appended) = 2

----------------------------------------------------------------------------
(* The font update log over several takes, under UpdatesSpec *)

\* C35: after any sequence of adds, get_or_insert_font calls and takes, the
\* batches returned so far by take_resource_updates, one after the other,
\* followed by the current log, are the sequence of all events ever
\* appended, in the order they were appended: none lost, none twice.
C35_BatchesAndLogAreAllEvents ==
    font_taken \o font_cache.api.up.updates = font_appended

\* Three events have been handed out by takes (a font, its instance and a
\* second instance), and a second font's two events were appended since.
C35_Witness ==
    /\ Len(font_taken) = 3
    /\ Len(font_cache.api.up.updates) = 2
    /\ font_cache.api.up.updates[1].type = "AddFont"
    /\ font_taken[3].type = "AddFontInstance"

----------------------------------------------------------------------------
(* The keys in the events and in the caches *)

\* The registered font instances that carry this instance key.
InstancesWithKey(cache, instance_key) ==
    { id \in DOMAIN cache.instances :
        cache.instances[id].external_instance_key = instance_key }

\* C36: in the history of the events a font cache appended, every
\* AddFontInstance event names a font key whose AddFont event was appended
\* earlier, and the instance key of every event belongs to exactly one
\* registered font instance, which holds the event's font key.
C36_EventsNameKnownKeys ==
    \A i \in 1..Len(font_appended) :
        font_appended[i].type = "AddFontInstance" =>
           /\ \E j \in 1..(i - 1) :
                 /\ font_appended[j].type = "AddFont"
                 /\ font_appended[j].key = font_appended[i].key
           /\ Cardinality(InstancesWithKey(font_cache,
                                           font_appended[i].instance_key)) = 1
           /\ \A id \in InstancesWithKey(font_cache, font_appended[i].instance_key) :
                 font_cache.instances[id].external_key = font_appended[i].key

\* Two fonts and a resized instance of the second: the third instance event
\* names the second font key, after a take.
C36_Witness ==
    /\ Len(font_appended) = 5
    /\ font_appended[5].type = "AddFontInstance"
    /\ font_appended[5].key = 1
    /\ font_appended[5].instance_key = 2
    /\ font_taken_at > 0
    /\ Cardinality(DOMAIN font_cache.instances) = 3


\* The events of one kind, in the order they were appended.
EventsOfKind(appended, kind) ==
    SelectSeq(appended, LAMBDA update : update.type = kind)

\* C37: the default keys APIs hand out the keys 0, 1, 2, ... of each kind in
\* allocation order and never hand one out twice, and take_resource_updates
\* does not reset the counters: the n-th AddImage event ever appended holds
\* image key n - 1, the n-th AddFont event font key n - 1, the n-th
\* AddFontInstance event instance key n - 1, and each counter is the number of
\* keys of its kind handed out.  Hence the images of a cache have pairwise
\* distinct image keys and the font instances pairwise distinct instance
\* keys, whatever takes were made in between.
C37_KeysCountUp ==
    /\ \A n \in 1..Len(img_appended) : img_appended[n].key = n - 1
    /\ image_cache.api.next_image_key = Len(img_appended)
    /\ \A n \in 1..Len(EventsOfKind(font_appended, "AddFont")) :
          EventsOfKind(font_appended, "AddFont")[n].key = n - 1
    /\ font_cache.api.next_font_key = Len(EventsOfKind(font_appended, "AddFont"))
    /\ \A n \in 1..Len(EventsOfKind(font_appended, "AddFontInstance")) :
          EventsOfKind(font_appended, "AddFontInstance")[n].instance_key = n - 1
    /\ font_cache.api.next_font_instance_key
          = Len(EventsOfKind(font_appended, "AddFontInstance"))
    /\ \A a, b \in DOMAIN image_cache.images :
          a # b => image_cache.images[a].external_key
                      # image_cache.images[b].external_key
    /\ \A a, b \in DOMAIN font_cache.instances :
          a # b => font_cache.instances[a].external_instance_key
                      # font_cache.instances[b].external_instance_key

\* Both logs were taken while they held events, and keys were handed out
\* afterwards: two images and three font instances hold keys, the newest
\* allocated after the takes.
C37_Witness ==
    /\ img_taken_at = 1
    /\ Len(img_appended) = 2
    /\ Cardinality(DOMAIN image_cache.images) = 2
    /\ font_taken_at = 2
    /\ Len(font_appended) = 5
    /\ Cardinality(DOMAIN font_cache.instances) = 3


\* C38: in every reachable state of the font cache, each registered font
\* instance refers to a font identity that has a face in the font context,
\* is stored under an id whose size and DPI are the instance's own, and is
\* accompanied by an instance of the same family at the default size and
\* DPI that has the same font identity and the same font key.
C38_InstancesAreWellFormed ==
    \A id \in DOMAIN font_cache.instances :
        /\ font_cache.instances[id].font_id \in DOMAIN font_cache.context.faces
        /\ font_cache.instances[id].size = id.size
        /\ font_cache.instances[id].dpi = id.dpi
        /\ \E default_id \in { FontInstanceId_resize_dpi(
                                   id, DEFAULT_FONT_SIZE, DEFAULT_FONT_DPI) } :
              /\ default_id \in DOMAIN font_cache.instances
              /\ font_cache.instances[default_id].font_id
                    = font_cache.instances[id].font_id
              /\ font_cache.instances[default_id].external_key
                    = font_cache.instances[id].external_key

\* Two families are registered, the second (font key 1) also at another size
\* or DPI.
C38_Witness ==
    /\ Cardinality(DOMAIN font_cache.instances) = 3
    /\ \E id \in DOMAIN font_cache.instances :
          /\ << id.size, id.dpi >> # << DEFAULT_FONT_SIZE, DEFAULT_FONT_DPI >>
          /\ font_cache.instances[id].external_key = 1
    /\ Cardinality(DOMAIN font_cache.context.faces) = 2

----------------------------------------------------------------------------
(* Shapings that fail, under FailSpec *)

\* C39: when shape_text_h or shape_text_v fails (the font context has no
\* face for the instance's font, or a size or glyph query returns an engine
\* error, also part-way through the text), no entry is inserted: every
\* instance's shaping caches are as they were and hold nothing for the text,
\* so shaping the same text again takes the Vacant arm and queries the
\* engine again instead of returning a partial store.
C39_FailedShapingCachesNothing ==
    [][ \A font_instance_id \in FailInstanceIds, text \in ShapeTexts :
           /\ (/\ call'.op = "FontCache::shape_text_h"
               /\ IsErr(ret')
               /\ FontShapeTextH(font_instance_id, text)) =>
                 /\ font_cache'.instances = font_cache.instances
                 /\ ShapedH(font_cache', font_instance_id, text) = None
                 /\ \E again \in { FontCache_shape_text_h(
                                       font_cache', font_instance_id, text) } :
                       /\ again.calls # <<>>
                       /\ IsErr(again.result)
                       /\ again.cache.instances = font_cache.instances
           /\ (/\ call'.op = "FontCache::shape_text_h"
               /\ IsErr(ret')
               /\ FontShapeTextHElsewhere(font_instance_id, text)) =>
                 /\ ret' = Err("FaceNotFound")
                 /\ font_cache'.instances = font_cache.instances
                 /\ ShapedH(font_cache', font_instance_id, text) = None
                 /\ FontCache_shape_text_h(
                        font_cache', font_instance_id, text).calls # <<>>
           /\ (/\ call'.op = "FontCache::shape_text_v"
               /\ IsErr(ret')
               /\ FontShapeTextV(font_instance_id, text)) =>
                 /\ font_cache'.instances = font_cache.instances
                 /\ ShapedV(font_cache', font_instance_id, text) = None
                 /\ \E again \in { FontCache_shape_text_v(
                                       font_cache', font_instance_id, text) } :
                       /\ again.calls # <<>>
                       /\ IsErr(again.result)
                       /\ again.cache.instances = font_cache.instances
      ]_vars

\* Shaping "Hi" failed at the glyph of 'i', after the size metrics and the
\* glyph of 'H' were read; the instance holds the store of another text
\* shaped before, and none for "Hi".
C39_Witness ==
    /\ call.op = "FontCache::shape_text_h"
    /\ ret = Err("FTError")
    /\ Len(engine_queries) = 9
    /\ \E id \in DOMAIN font_cache.instances :
          /\ ShapedH(font_cache, id, << >>) # None
          /\ ShapedH(font_cache, id, TextHi) = None
          /\ 76 \in font_cache.context.faces[font_cache.instances[id].font_id]
                       .raw.corrupt_glyphs

====
